---- MODULE Spec2Model ----
(***************************************************************************)
(* Model of the EventServer authentication pipeline:                       *)
(*   - PowService        (eventserver/src/crypto/pow.rs)                   *)
(*   - CertificateService (eventserver/src/crypto/certificate.rs)          *)
(*   - POST /api/v1/pow/challenge and /api/v1/pow/verify (main.rs)         *)
(*   - crypto_validation_middleware (eventserver/src/middleware/crypto.rs) *)
(*                                                                         *)
(* Requests are handled by worker tasks (Procs).  Every block of code that *)
(* runs under one Mutex guard is one atomic step; a step that reads the    *)
(* wall clock (Utc::now()) reads the variable now.  Steps of different     *)
(* workers interleave freely, and the clock may advance between any two    *)
(* steps.                                                                  *)
(*                                                                         *)
(* Modelling conventions:                                                  *)
(*   - Random 16-byte identifiers are modelled as fresh naturals.          *)
(*   - A string that may be base64 is a record [b64, bytes]: b64 tells     *)
(*     whether the text is valid base64, bytes is what it decodes to.      *)
(*   - SHA-256 is a fixed table from inputs to short byte sequences.       *)
(***************************************************************************)
EXTENDS Integers, Sequences, FiniteSets, TLC

\* ------------------------------------------------------------------ bounds
MaxTime == 1
MaxChallenges == 1
MaxCerts == 2
MaxNonce == 1
MaxLifetime == 0
MaxCertLifetime == 1
MaxIssued == 1
MaxHashLen == 2
MaxDifficulty == 5
MaxObjects == 1

\* PowService::new(): default_difficulty
DefaultDifficulty == 4

\* Two workers handle requests concurrently
Procs == {1, 2}
Nonces == 0..MaxNonce

VARIABLES
    now,                  \* wall clock, Utc::now()
    challenges,           \* PowService.challenges : challenge_id -> PowChallenge
    certificates,         \* CertificateService.certificates : certificate_id -> DeviceCertificate
    default_difficulty,   \* PowService.default_difficulty
    challenge_lifetime,   \* PowService.challenge_lifetime
    certificate_lifetime, \* CertificateService.certificate_lifetime
    nextChallengeId,      \* source of fresh challenge ids
    nextCertificateId,    \* source of fresh certificate ids
    req,                  \* per worker: the request in progress and its locals
    okCount,              \* history: per challenge, verify_solution calls that returned Ok
    issuedFor,            \* history: per challenge, certificates issued by POST /pow/verify
    issued,               \* history: tokens returned by issue_certificate
    generated,            \* history: per challenge id, the record generate_challenge returned
    bucket,               \* the objects of the S3 bucket the storage service writes to
    route,                \* per worker: method, path and payload of the events request it serves
    aud_unset_rejected,   \* the jsonwebtoken build rejects a token carrying aud when Validation names none
    held                  \* per store: the worker that holds the store's Mutex, or NoWorker

vars == <<now, challenges, certificates, default_difficulty, challenge_lifetime,
          certificate_lifetime, nextChallengeId, nextCertificateId, req,
          okCount, issuedFor, issued, generated, bucket, route,
          aud_unset_rejected, held>>

powCfg == <<default_difficulty, challenge_lifetime>>
certCfg == <<certificate_lifetime>>
evVars == <<bucket, route>>
libCfg == <<aud_unset_rejected>>
lockVars == <<held>>

\* The two stores, each behind its own std::sync::Mutex
Stores == {"challenges", "certificates"}

\* No worker holds the Mutex
NoWorker == 0

\* No events request is being served
NoRoute == [kind |-> "none"]

Idle == [pc |-> "idle", kind |-> "none"]

\* A worker is free when it has no request or has answered its last one
Free(p) == req[p].pc \in {"idle", "done"}

\* A Mutex nobody holds; a held one names its owner and the request state in
\* which the owner locked it
Unheld == [owner |-> NoWorker, at |-> Idle]

\* Both locks are free
Unlocked == [l \in Stores |-> Unheld]

\* ------------------------------------------------------------ hash primitives
\* base64::engine::general_purpose::STANDARD.encode
Base64Encode(bytes) == [b64 |-> TRUE, bytes |-> bytes]

\* A text that is not valid base64 (e.g. "invalid_hash" in the tests)
NotBase64 == [b64 |-> FALSE, bytes |-> <<>>]

\* The digests SHA-256 produces in this model (first three bytes of the hash)
Digests == << <<0, 0, 16>>, <<0, 15, 0>>, <<16, 0, 0>>, <<0, 0, 1>>,
             <<0, 0, 0>>, <<0, 1, 0>>, <<255, 0, 0>>, <<15, 0, 0>> >>

\* Random challenge_data values the server may draw
ChallengeDatas == {0, 1}

\* Sha256::new().update(challenge_data).update(nonce.to_le_bytes()).finalize()
Sha256(challenge_data, nonce) ==
    Digests[((4 * challenge_data + nonce) % Len(Digests)) + 1]

\* PowService::compute_hash
compute_hash(challenge_data, nonce) == Base64Encode(Sha256(challenge_data, nonce))

\* The loop of meets_difficulty over the decoded bytes
RECURSIVE zero_count(_)
zero_count(bytes) ==
    IF bytes = <<>> THEN 0
    ELSE IF Head(bytes) = 0 THEN 2 + zero_count(Tail(bytes))
    ELSE IF Head(bytes) < 16 THEN 1
    ELSE 0

\* Variant of the difficulty test that asks for more zeros than required
meets_difficulty_Strict(hash, difficulty) ==
    IF ~hash.b64 THEN [err |-> TRUE, meets |-> FALSE]
    ELSE [err |-> FALSE, meets |-> zero_count(hash.bytes) > difficulty]

\* Variant of the difficulty test that asks for exactly the required zeros
meets_difficulty_Exact(hash, difficulty) ==
    IF ~hash.b64 THEN [err |-> TRUE, meets |-> FALSE]
    ELSE [err |-> FALSE, meets |-> zero_count(hash.bytes) = difficulty]

\* PowService::meets_difficulty: Err on a hash that is not base64
meets_difficulty(hash, difficulty) ==
    IF ~hash.b64 THEN [err |-> TRUE, meets |-> FALSE]
    ELSE [err |-> FALSE, meets |-> zero_count(hash.bytes) >= difficulty]

\* ------------------------------------------------------------------ clients
\* Clients send the relay ids "relay_1", "relay\n" and "relay\r"; the last two
\* contain a control character and therefore cannot be an HTTP header value.
HeaderSafe(relay_id) == relay_id \notin {"relay\n", "relay\r"}

\* Public key material a client may send with a PoW request
PublicKeys == {"pk_1", "pk_2"}

\* (relay_id, public_key) pairs used by the clients of the model
Clients == {[relay_id |-> "relay_1", public_key |-> "pk_1"],
            [relay_id |-> "relay\n", public_key |-> "pk_2"]}

\* The clients of the PoW endpoints
PowClients == {c \in Clients : c.relay_id = "relay_1"}

\* Hash texts a client may put into a solution with nonce n: the hash of
\* some challenge data with that nonce (right for one challenge, wrong for
\* the others)
HashChoices(n) == {compute_hash(d, n) : d \in ChallengeDatas}

\* PowSolution values a client may submit naming challenge_id
SolutionsFor(challenge_id) ==
    UNION {{[challenge_id |-> challenge_id, nonce |-> n, hash |-> h] :
               h \in HashChoices(n)} : n \in Nonces}

\* ------------------------------------------------------------------ stores
\* HashMap::remove
MapRemove(map, key) == [k \in DOMAIN map \ {key} |-> map[k]]

\* HashMap::insert
MapInsert(map, key, value) ==
    [k \in DOMAIN map \cup {key} |-> IF k = key THEN value ELSE map[k]]

\* The empty HashMap
EmptyMap == [k \in {} |-> 0]

\* ------------------------------------------------------------------ clock
\* The wall clock advances between steps
Tick ==
    /\ now < MaxTime
    /\ now' = now + 1
    /\ UNCHANGED <<challenges, certificates, powCfg, certCfg, libCfg, lockVars, nextChallengeId,
                   nextCertificateId, req, okCount, issuedFor, issued, generated, evVars>>

\* Worker p goes on with its request, now in state r
Continue(p, r) == req' = [req EXCEPT ![p] = r]

\* Worker p answers its request; the response stays with the worker until it
\* takes its next request
Finish(p, response) == req' = [req EXCEPT ![p] = [pc |-> "done"] @@ response]

\* ------------------------------------------------------------ PoW service
\* Random challenge_data drawn for the challenge with this id
ChallengeData(challenge_id) == challenge_id % 2

\* Variant of generate_challenge that replaces the store by the new record
GenerateChallenge_DropsStored(p) ==
    /\ Free(p)
    /\ nextChallengeId <= MaxChallenges
    /\ LET challenge == [challenge_id |-> nextChallengeId,
                         challenge_data |-> ChallengeData(nextChallengeId),
                         difficulty |-> default_difficulty,
                         expires_at |-> now + challenge_lifetime,
                         created_at |-> now]
       IN /\ challenges' = MapInsert(EmptyMap, nextChallengeId, challenge)
          /\ generated' = MapInsert(generated, nextChallengeId, challenge)
          /\ Finish(p, [kind |-> "pow_challenge", status |-> 200,
                        challenge |-> challenge])
    /\ nextChallengeId' = nextChallengeId + 1
    /\ okCount' = MapInsert(okCount, nextChallengeId, 0)
    /\ issuedFor' = MapInsert(issuedFor, nextChallengeId, 0)
    /\ UNCHANGED <<now, certificates, powCfg, certCfg, libCfg, lockVars, nextCertificateId, issued,
                   evVars>>

\* PowService::generate_challenge, called by request_pow_challenge
\* (POST /api/v1/pow/challenge)
GenerateChallenge(p) ==
    /\ Free(p)
    /\ nextChallengeId <= MaxChallenges
    /\ LET challenge == [challenge_id |-> nextChallengeId,
                         challenge_data |-> ChallengeData(nextChallengeId),
                         difficulty |-> default_difficulty,
                         expires_at |-> now + challenge_lifetime,
                         created_at |-> now]
       IN /\ challenges' = MapInsert(challenges, nextChallengeId, challenge)
          /\ generated' = MapInsert(generated, nextChallengeId, challenge)
          /\ Finish(p, [kind |-> "pow_challenge", status |-> 200,
                        challenge |-> challenge])
    /\ nextChallengeId' = nextChallengeId + 1
    /\ okCount' = MapInsert(okCount, nextChallengeId, 0)
    /\ issuedFor' = MapInsert(issuedFor, nextChallengeId, 0)
    /\ UNCHANGED <<now, certificates, powCfg, certCfg, libCfg, lockVars, nextCertificateId, issued,
                   evVars>>

\* POST /api/v1/pow/verify arrives: verify_pow_and_issue_certificate is entered
\* with a PowCertificateRequest and calls verify_solution
PowVerifyStart(p) ==
    /\ Free(p)
    /\ \E challenge_id \in 0..(nextChallengeId - 1), client \in PowClients :
         \E solution \in SolutionsFor(challenge_id) :
            Continue(p, [pc |-> "vs_get", kind |-> "pow_verify",
                         solution |-> solution,
                         relay_id |-> client.relay_id,
                         public_key |-> client.public_key,
                         afterOk |-> challenge_id \in DOMAIN okCount
                                       /\ okCount[challenge_id] > 0])
    /\ UNCHANGED <<now, challenges, certificates, powCfg, certCfg, libCfg, lockVars, nextChallengeId,
                   nextCertificateId, okCount, issuedFor, issued, generated, evVars>>

\* Variant of the handler that answers a failed verification with 500
PowVerifyFailed_InternalError(r, error) ==
    [kind |-> "pow_verify", challenge_id |-> r.solution.challenge_id,
     afterOk |-> r.afterOk, vs_result |-> error, status |-> 500,
     token |-> NotBase64]

\* What the handler answers when verify_solution returns Err(error): 401
PowVerifyFailed(r, error) ==
    [kind |-> "pow_verify", challenge_id |-> r.solution.challenge_id,
     afterOk |-> r.afterOk, vs_result |-> error, status |-> 401,
     token |-> NotBase64]

\* verify_solution, first lock: look the challenge up and clone it
VsGet(p) ==
    /\ req[p].pc = "vs_get"
    /\ LET r == req[p]
           id == r.solution.challenge_id
       IN IF id \in DOMAIN challenges
          THEN Continue(p, [r @@ [challenge |-> challenges[id]] EXCEPT !.pc = "vs_check"])
          ELSE Finish(p, PowVerifyFailed(r, "not_found"))
    /\ UNCHANGED <<now, challenges, certificates, powCfg, certCfg, libCfg, lockVars, nextChallengeId,
                   nextCertificateId, okCount, issuedFor, issued, generated, evVars>>

\* Variant of the checks that compares the hash before looking at the expiry
VsCheck_HashFirst(p) ==
    /\ req[p].pc = "vs_check"
    /\ LET r == req[p]
           computed_hash == compute_hash(r.challenge.challenge_data, r.solution.nonce)
           difficulty == meets_difficulty(computed_hash, r.challenge.difficulty)
       IN IF computed_hash # r.solution.hash
          THEN Finish(p, PowVerifyFailed(r, "invalid_hash"))
          ELSE IF now > r.challenge.expires_at
          THEN Continue(p, [r EXCEPT !.pc = "vs_remove_expired"])
          ELSE IF difficulty.err
          THEN Finish(p, PowVerifyFailed(r, "invalid_base64"))
          ELSE IF ~difficulty.meets
          THEN Finish(p, PowVerifyFailed(r, "difficulty"))
          ELSE Continue(p, [r EXCEPT !.pc = "vs_remove_used"])
    /\ UNCHANGED <<now, challenges, certificates, powCfg, certCfg, libCfg, lockVars, nextChallengeId,
                   nextCertificateId, okCount, issuedFor, issued, generated, evVars>>

\* Variant of the checks that tests the difficulty before comparing the hash
VsCheck_DifficultyFirst(p) ==
    /\ req[p].pc = "vs_check"
    /\ LET r == req[p]
           computed_hash == compute_hash(r.challenge.challenge_data, r.solution.nonce)
           difficulty == meets_difficulty(computed_hash, r.challenge.difficulty)
       IN IF now > r.challenge.expires_at
          THEN Continue(p, [r EXCEPT !.pc = "vs_remove_expired"])
          ELSE IF difficulty.err
          THEN Finish(p, PowVerifyFailed(r, "invalid_base64"))
          ELSE IF ~difficulty.meets
          THEN Finish(p, PowVerifyFailed(r, "difficulty"))
          ELSE IF computed_hash # r.solution.hash
          THEN Finish(p, PowVerifyFailed(r, "invalid_hash"))
          ELSE Continue(p, [r EXCEPT !.pc = "vs_remove_used"])
    /\ UNCHANGED <<now, challenges, certificates, powCfg, certCfg, libCfg, lockVars, nextChallengeId,
                   nextCertificateId, okCount, issuedFor, issued, generated, evVars>>

\* Variant of the checks that takes a challenge at its expiry time for expired
VsCheck_ExpiredAtExpiry(p) ==
    /\ req[p].pc = "vs_check"
    /\ LET r == req[p]
           computed_hash == compute_hash(r.challenge.challenge_data, r.solution.nonce)
           difficulty == meets_difficulty(computed_hash, r.challenge.difficulty)
       IN IF now >= r.challenge.expires_at
          THEN Continue(p, [r EXCEPT !.pc = "vs_remove_expired"])
          ELSE IF computed_hash # r.solution.hash
          THEN Finish(p, PowVerifyFailed(r, "invalid_hash"))
          ELSE IF difficulty.err
          THEN Finish(p, PowVerifyFailed(r, "invalid_base64"))
          ELSE IF ~difficulty.meets
          THEN Finish(p, PowVerifyFailed(r, "difficulty"))
          ELSE Continue(p, [r EXCEPT !.pc = "vs_remove_used"])
    /\ UNCHANGED <<now, challenges, certificates, powCfg, certCfg, libCfg, lockVars, nextChallengeId,
                   nextCertificateId, okCount, issuedFor, issued, generated, evVars>>

\* verify_solution between the locks: expiry, hash equality, difficulty
VsCheck(p) ==
    /\ req[p].pc = "vs_check"
    /\ LET r == req[p]
           computed_hash == compute_hash(r.challenge.challenge_data, r.solution.nonce)
           difficulty == meets_difficulty(computed_hash, r.challenge.difficulty)
       IN IF now > r.challenge.expires_at
          THEN Continue(p, [r EXCEPT !.pc = "vs_remove_expired"])
          ELSE IF computed_hash # r.solution.hash
          THEN Finish(p, PowVerifyFailed(r, "invalid_hash"))
          ELSE IF difficulty.err
          THEN Finish(p, PowVerifyFailed(r, "invalid_base64"))
          ELSE IF ~difficulty.meets
          THEN Finish(p, PowVerifyFailed(r, "difficulty"))
          ELSE Continue(p, [r EXCEPT !.pc = "vs_remove_used"])
    /\ UNCHANGED <<now, challenges, certificates, powCfg, certCfg, libCfg, lockVars, nextChallengeId,
                   nextCertificateId, okCount, issuedFor, issued, generated, evVars>>

\* verify_solution, lock of the expiry branch: remove the expired challenge
VsRemoveExpired(p) ==
    /\ req[p].pc = "vs_remove_expired"
    /\ challenges' = MapRemove(challenges, req[p].solution.challenge_id)
    /\ Finish(p, PowVerifyFailed(req[p], "expired"))
    /\ UNCHANGED <<now, certificates, powCfg, certCfg, libCfg, lockVars, nextChallengeId,
                   nextCertificateId, okCount, issuedFor, issued, generated, evVars>>

\* Variant of the last lock that returns Ok and leaves the challenge stored
VsRemoveUsed_KeepsChallenge(p) ==
    /\ req[p].pc = "vs_remove_used"
    /\ okCount' = [okCount EXCEPT ![req[p].solution.challenge_id] = @ + 1]
    /\ Continue(p, [pc |-> "ic_cleanup", kind |-> "pow_verify",
                    solution |-> req[p].solution, afterOk |-> req[p].afterOk,
                    relay_id |-> req[p].relay_id, public_key |-> req[p].public_key])
    /\ UNCHANGED <<now, challenges, certificates, powCfg, certCfg, libCfg, lockVars, nextChallengeId,
                   nextCertificateId, issuedFor, issued, generated, evVars>>

\* verify_solution, last lock: remove the used challenge and return Ok; the
\* handler goes on to issue_certificate
VsRemoveUsed(p) ==
    /\ req[p].pc = "vs_remove_used"
    /\ challenges' = MapRemove(challenges, req[p].solution.challenge_id)
    /\ okCount' = [okCount EXCEPT ![req[p].solution.challenge_id] = @ + 1]
    /\ Continue(p, [pc |-> "ic_cleanup", kind |-> "pow_verify",
                    solution |-> req[p].solution, afterOk |-> req[p].afterOk,
                    relay_id |-> req[p].relay_id, public_key |-> req[p].public_key])
    /\ UNCHANGED <<now, certificates, powCfg, certCfg, libCfg, lockVars, nextChallengeId,
                   nextCertificateId, issuedFor, issued, generated, evVars>>

\* ------------------------------------------------------ certificate service
\* CertificateService.server_private_key
ServerKey == "server_private_key"

\* cert_data = format!("{}:{}:{}:{}", certificate_id, relay_id, public_key, expires_at)
CertData(certificate_id, relay_id, public_key, expires_at) ==
    <<certificate_id, relay_id, public_key, expires_at>>

\* CertificateService::sign_certificate_data: base64(SHA-256(data || key)),
\* a digest that is different for different (data, key)
SignWith(data, key) == [data |-> data, key |-> key]

sign_certificate_data(data) == SignWith(data, ServerKey)

\* CertificateService::verify_certificate_signature
verify_certificate_signature(data, signature) == sign_certificate_data(data) = signature

\* &certificate.signature[..16]
First16(signature) == [prefix_of |-> signature]

\* A token text: what it base64-decodes to is the list of its ':'-separated parts
TokenText(parts) == Base64Encode(parts)

\* CertificateService::generate_certificate_token
generate_certificate_token(certificate) ==
    TokenText(<<certificate.certificate_id, certificate.expires_at,
                First16(certificate.signature)>>)

\* CertificateService::extract_certificate_id_from_token
extract_certificate_id_from_token(token) ==
    IF ~token.b64 THEN [err |-> "invalid_token_format", id |-> 0]
    ELSE IF Len(token.bytes) # 3 THEN [err |-> "invalid_token_structure", id |-> 0]
    ELSE [err |-> "none", id |-> token.bytes[1]]

\* Variant of the cleanup that also drops records with one time unit left
cleanup_expired_certificates_Eager(certs, t) ==
    [id \in {k \in DOMAIN certs : certs[k].expires_at > t + 1} |-> certs[id]]

\* Variant of the cleanup that keeps records expiring exactly now
cleanup_expired_certificates_KeepsDue(certs, t) ==
    [id \in {k \in DOMAIN certs : certs[k].expires_at >= t} |-> certs[id]]

\* CertificateService::cleanup_expired_certificates (retain expires_at > now)
cleanup_expired_certificates(certs, t) ==
    [id \in {k \in DOMAIN certs : certs[k].expires_at > t} |-> certs[id]]

\* issue_certificate is entered with a CertificateRequest of a client whose
\* PoW exchange is not followed step by step
IssueStart(p) ==
    /\ Free(p)
    /\ nextCertificateId + Cardinality({q \in Procs : req[q].pc \in {"ic_cleanup", "ic_mint"}})
         <= MaxIssued
    /\ \E client \in Clients :
         Continue(p, [pc |-> "ic_cleanup", kind |-> "issue",
                      relay_id |-> client.relay_id,
                      public_key |-> client.public_key])
    /\ UNCHANGED <<now, challenges, certificates, powCfg, certCfg, libCfg, lockVars, nextChallengeId,
                   nextCertificateId, okCount, issuedFor, issued, generated, evVars>>

\* Variant of issue_certificate that does not sweep the store first
IcCleanup_NoSweep(p) ==
    /\ req[p].pc = "ic_cleanup"
    /\ Continue(p, [req[p] EXCEPT !.pc = "ic_mint"])
    /\ UNCHANGED <<now, challenges, certificates, powCfg, certCfg, libCfg, lockVars, nextChallengeId,
                   nextCertificateId, okCount, issuedFor, issued, generated, evVars>>

\* issue_certificate: cleanup_expired_certificates()
IcCleanup(p) ==
    /\ req[p].pc = "ic_cleanup"
    /\ certificates' = cleanup_expired_certificates(certificates, now)
    /\ Continue(p, [req[p] EXCEPT !.pc = "ic_mint"])
    /\ UNCHANGED <<now, challenges, powCfg, certCfg, libCfg, lockVars, nextChallengeId,
                   nextCertificateId, okCount, issuedFor, issued, generated, evVars>>

\* Variant of issue_certificate that signs issued_at in place of expires_at
IcMint_SignsIssuedAt(p) ==
    /\ req[p].pc = "ic_mint"
    /\ nextCertificateId <= MaxCerts
    /\ LET r == req[p]
           certificate_id == nextCertificateId
           expires_at == now + certificate_lifetime
           certificate ==
               [certificate_id |-> certificate_id,
                relay_id |-> r.relay_id,
                public_key |-> r.public_key,
                issued_at |-> now,
                expires_at |-> expires_at,
                signature |-> sign_certificate_data(
                    CertData(certificate_id, r.relay_id, r.public_key, now))]
       IN Continue(p, [r @@ [certificate |-> certificate,
                             token |-> generate_certificate_token(certificate)]
                         EXCEPT !.pc = "ic_insert"])
    /\ nextCertificateId' = nextCertificateId + 1
    /\ UNCHANGED <<now, challenges, certificates, powCfg, certCfg, libCfg, lockVars, nextChallengeId,
                   okCount, issuedFor, issued, generated, evVars>>

\* issue_certificate: fresh id, expiry, signature, record and token
IcMint(p) ==
    /\ req[p].pc = "ic_mint"
    /\ nextCertificateId <= MaxCerts
    /\ LET r == req[p]
           certificate_id == nextCertificateId
           expires_at == now + certificate_lifetime
           certificate ==
               [certificate_id |-> certificate_id,
                relay_id |-> r.relay_id,
                public_key |-> r.public_key,
                issued_at |-> now,
                expires_at |-> expires_at,
                signature |-> sign_certificate_data(
                    CertData(certificate_id, r.relay_id, r.public_key, expires_at))]
       IN Continue(p, [r @@ [certificate |-> certificate,
                             token |-> generate_certificate_token(certificate)]
                         EXCEPT !.pc = "ic_insert"])
    /\ nextCertificateId' = nextCertificateId + 1
    /\ UNCHANGED <<now, challenges, certificates, powCfg, certCfg, libCfg, lockVars, nextChallengeId,
                   okCount, issuedFor, issued, generated, evVars>>

\* Variant of issue_certificate that keeps only the new record in the store
IcInsert_ReplacesStore(p) ==
    /\ req[p].pc = "ic_insert"
    /\ LET r == req[p]
       IN /\ certificates' = MapInsert(EmptyMap, r.certificate.certificate_id,
                                       r.certificate)
          /\ issued' = issued \cup {[token |-> r.token,
                                     certificate_id |-> r.certificate.certificate_id,
                                     relay_id |-> r.relay_id,
                                     public_key |-> r.public_key,
                                     expires_at |-> r.certificate.expires_at]}
          /\ issuedFor' = IF r.kind = "pow_verify"
                          THEN [issuedFor EXCEPT ![r.solution.challenge_id] = @ + 1]
                          ELSE issuedFor
          /\ Finish(p, IF r.kind = "pow_verify"
                       THEN [kind |-> "pow_verify",
                             challenge_id |-> r.solution.challenge_id,
                             afterOk |-> r.afterOk, vs_result |-> "ok",
                             status |-> 200, token |-> r.token]
                       ELSE [kind |-> "issue", status |-> 200, token |-> r.token])
    /\ UNCHANGED <<now, challenges, powCfg, certCfg, libCfg, lockVars, nextChallengeId,
                   nextCertificateId, okCount, generated, evVars>>

\* issue_certificate: store the certificate and return the response; the PoW
\* handler answers 200 with the token
IcInsert(p) ==
    /\ req[p].pc = "ic_insert"
    /\ LET r == req[p]
       IN /\ certificates' = MapInsert(certificates, r.certificate.certificate_id,
                                       r.certificate)
          /\ issued' = issued \cup {[token |-> r.token,
                                     certificate_id |-> r.certificate.certificate_id,
                                     relay_id |-> r.relay_id,
                                     public_key |-> r.public_key,
                                     expires_at |-> r.certificate.expires_at]}
          /\ issuedFor' = IF r.kind = "pow_verify"
                          THEN [issuedFor EXCEPT ![r.solution.challenge_id] = @ + 1]
                          ELSE issuedFor
          /\ Finish(p, IF r.kind = "pow_verify"
                       THEN [kind |-> "pow_verify",
                             challenge_id |-> r.solution.challenge_id,
                             afterOk |-> r.afterOk, vs_result |-> "ok",
                             status |-> 200, token |-> r.token]
                       ELSE [kind |-> "issue", status |-> 200, token |-> r.token])
    /\ UNCHANGED <<now, challenges, powCfg, certCfg, libCfg, lockVars, nextChallengeId,
                   nextCertificateId, okCount, generated, evVars>>

\* ------------------------------------------------------------- JWS verifier
\* Device public key texts that are not a usable P-256 JWK: another key
\* type, another curve, a coordinate that is not base64url, a coordinate of
\* the wrong length, a point that is not on the curve
BadJwks == {"jwk_rsa", "jwk_p384", "jwk_x_not_base64", "jwk_y_not_base64",
            "jwk_x_31_bytes", "jwk_y_33_bytes", "jwk_off_curve"}

\* What serde_json::from_str::<JwkKey> and the base64url decoding of x and y
\* yield for each public key text
ParseJwk(public_key) ==
    [json |-> public_key \in PublicKeys \cup BadJwks,
     kty |-> IF public_key = "jwk_rsa" THEN "RSA" ELSE "EC",
     crv |-> IF public_key = "jwk_p384" THEN "P-384" ELSE "P-256",
     x_decodes |-> public_key # "jwk_x_not_base64",
     y_decodes |-> public_key # "jwk_y_not_base64",
     x_len |-> IF public_key = "jwk_x_31_bytes" THEN 31 ELSE 32,
     y_len |-> IF public_key = "jwk_y_33_bytes" THEN 33 ELSE 32,
     on_curve |-> public_key # "jwk_off_curve",
     key |-> public_key]

\* The exp claim of a JWS: absent, or a time
NoExp == [present |-> FALSE, at |-> 0]
ExpAt(t) == [present |-> TRUE, at |-> t]

\* A compact ES256 JWS text: signer names the private key (by its public key)
\* that produced the signature, signed the payload the signature was computed
\* over, payload the payload claim as transmitted, exp and aud the registered
\* claims ("absent" when the token has no aud)
Jws(signer, payload, signed, exp, aud) ==
    [signer |-> signer, payload |-> payload, signed |-> signed, exp |-> exp,
     aud |-> aud]

\* JWS texts a client may send in an envelope: each key signs "ep_1" with an
\* exp beyond the run and no aud; one text has its payload altered after
\* signing.
JwsSet == {Jws(k, "ep_1", "ep_1", ExpAt(MaxTime + 1), "absent") : k \in PublicKeys}
          \cup {Jws("pk_1", "ep_2", "ep_1", ExpAt(MaxTime + 1), "absent")}

NoJws == Jws("none", "none", "none", NoExp, "absent")

\* Variant of the verifier that decodes the payload without checking the
\* signature against the device key
verify_jwt_event_data_SkipsSignature(jwt, device_public_key) ==
    LET jwk == ParseJwk(device_public_key)
    IN IF ~jwk.json THEN [ok |-> FALSE, payload |-> "none"]
       ELSE [ok |-> TRUE, payload |-> jwt.payload]

\* verify_jwt_event_data: JWK checks, then jsonwebtoken::decode with
\* Validation::new(ES256), which requires exp, rejects an exp that has passed
\* (its leeway of 60 seconds is below one time unit) and names no audience
verify_jwt_event_data(jwt, device_public_key) ==
    LET jwk == ParseJwk(device_public_key)
        fail == [ok |-> FALSE, payload |-> "none"]
    IN IF ~jwk.json THEN fail
       ELSE IF jwk.kty # "EC" THEN fail
       ELSE IF jwk.crv # "P-256" THEN fail
       ELSE IF ~jwk.x_decodes \/ ~jwk.y_decodes THEN fail
       ELSE IF jwk.x_len # 32 THEN fail
       ELSE IF jwk.y_len # 32 THEN fail
       ELSE IF ~jwk.on_curve THEN fail
       ELSE IF jwt.signer # jwk.key \/ jwt.payload # jwt.signed THEN fail
       ELSE IF ~jwt.exp.present \/ jwt.exp.at < now THEN fail
       ELSE IF jwt.aud # "absent" /\ aud_unset_rejected THEN fail
       ELSE [ok |-> TRUE, payload |-> jwt.payload]

\* ----------------------------------------------------------- auth middleware
\* A request path is the list of its '/'-separated segments: "/health" is
\* <<"health">>, "/health/" is <<"health", "">>
public_paths ==
    {<<"health">>, <<"docs">>, <<"openapi-json">>, <<"openapi-yaml">>,
     <<"api", "v1", "pow", "challenge">>, <<"api", "v1", "pow", "verify">>}

\* path.starts_with(&format!("{public_path}/"))
StartsWithSlash(path, public_path) ==
    /\ Len(path) > Len(public_path)
    /\ SubSeq(path, 1, Len(public_path)) = public_path

\* Variant of the allow-list test that matches exact paths only
should_skip_validation_ExactOnly(path) == path \in public_paths

\* should_skip_validation
should_skip_validation(path) ==
    \E public_path \in public_paths :
        path = public_path \/ StartsWithSlash(path, public_path)

\* Paths of the requests of the model
RequestPaths ==
    {<<"api", "v1", "pow", "verify">>, <<"health", "live">>,
     <<"api", "v1", "events">>}

\* Request bodies: JSON that deserializes as a SignedEventPackage carrying
\* jwt_event_data, or anything else
Bodies ==
    {[json |-> "envelope", jwt |-> j] : j \in JwsSet} \cup
    {[json |-> "other", jwt |-> NoJws]}

\* serde_json::from_slice::<SignedEventPackage>(&body_bytes).is_ok()
ParsesAsEnvelope(body) == body.json = "envelope"

\* A signature-like text made without the server key
ClientSig == SignWith(CertData(0, "relay_1", "pk_1", 0), "client_key")

\* Tokens a client can assemble itself around certificate id id
ForgedToken(id) == TokenText(<<id, MaxTime + 1, First16(ClientSig)>>)

\* A text that is not base64, and a token with two parts only
MalformedTokens == {NotBase64, TokenText(<<1, 0>>)}

\* Authorization header values: absent, not a bearer, Bearer <token>
NoAuthorization == [present |-> FALSE, bearer |-> FALSE, token |-> NotBase64]
BasicAuthorization == [present |-> TRUE, bearer |-> FALSE, token |-> NotBase64]
Bearer(token) == [present |-> TRUE, bearer |-> TRUE, token |-> token]

\* extract_certificate_token
extract_certificate_token(authorization) ==
    IF authorization.present /\ authorization.bearer
    THEN [some |-> TRUE, token |-> authorization.token]
    ELSE [some |-> FALSE, token |-> NotBase64]

\* HeaderValue parsing accepts the text
HeaderRepresentable(relay_id) == HeaderSafe(relay_id)

\* Variant of the header value that carries the relay_id whatever it is
ValidatedRelayHeader_KeepsText(relay_id) == relay_id

\* Variant of the header value that always takes the fallback
ValidatedRelayHeader_AlwaysFallback(relay_id) == "unknown"

\* relay_id.parse::<HeaderValue>().unwrap_or_else(|_| "unknown".parse().unwrap())
ValidatedRelayHeader(relay_id) ==
    IF HeaderRepresentable(relay_id) THEN relay_id ELSE "unknown"

\* The end of a request in the middleware.  path and auth are what the client
\* sent (kept where the middleware decides on them), vc_result the outcome of
\* validate_certificate, expiredAtStart whether the call was made at or after
\* the token's expiry, body the bytes the middleware read.
NoPath == <<>>
NoBody == [json |-> "none", jwt |-> NoJws]

\* The body of a request the middleware passes on without reading it
UnreadBody == [json |-> "unread", jwt |-> NoJws]

\* The middleware answers with a status of its own; next.run is not called
Rejected(path, auth, vc_result, expiredAtStart, status, body) ==
    [kind |-> "protected", path |-> path, auth |-> auth, vc_result |-> vc_result,
     expiredAtStart |-> expiredAtStart, status |-> status, forwarded |-> FALSE,
     fwd_relay_header |-> "absent", body |-> body, fwd_body |-> NoBody,
     fwd_package |-> "none"]

\* next.run(request): the request goes downstream with this header value, this
\* body and this EventPackage extension
Forwarded(path, auth, vc_result, relay_header, body, fwd_body, package) ==
    [kind |-> "protected", path |-> path, auth |-> auth, vc_result |-> vc_result,
     expiredAtStart |-> FALSE, status |-> 0, forwarded |-> TRUE,
     fwd_relay_header |-> relay_header, body |-> body, fwd_body |-> fwd_body,
     fwd_package |-> package]

\* The token was returned by issue_certificate and is at or past its expiry at t
ExpiredAt(token, t) == \E e \in issued : e.token = token /\ t >= e.expires_at

\* Authorization headers a client may send
Authorizations ==
    {NoAuthorization, BasicAuthorization}
    \cup {Bearer(t) : t \in {e.token : e \in issued}
                             \cup {ForgedToken(id) : id \in 1..MaxIssued}
                             \cup MalformedTokens}

\* How the Authorization header of a request looks
AuthClass(authorization) ==
    IF ~authorization.present THEN "absent"
    ELSE IF ~authorization.bearer THEN "not_bearer"
    ELSE "bearer"

\* X-Validated-Relay-ID as a client may send it: not at all, or naming a relay
InboundRelayHeaders == {"absent", "relay_1"}

\* Authorization and X-Validated-Relay-ID of the requests sent to a public
\* path: none carries the relay header, except the health probe sent without
\* Authorization, which names a relay in it
PublicRequestHeaders(path) ==
    {<<AuthClass(a), "absent">> :
        a \in IF path = <<"health", "live">>
              THEN Authorizations \ {NoAuthorization}
              ELSE Authorizations}
    \cup IF path = <<"health", "live">>
         THEN {<<AuthClass(NoAuthorization), h>> :
                  h \in InboundRelayHeaders \ {"absent"}}
         ELSE {}

\* return Ok(next.run(request).await) of the public-path branch: the request
\* goes downstream as it came, with the headers the client sent
PassedThrough(path, auth, inbound) ==
    Forwarded(path, auth, "none", inbound, UnreadBody, UnreadBody, "none")
       @@ [inbound_relay_header |-> inbound]

\* crypto_validation_middleware up to the call of validate_certificate
MwStart(p) ==
    /\ Free(p)
    /\ \E path \in RequestPaths :
         IF should_skip_validation(path)
         THEN \E h \in PublicRequestHeaders(path) :
                Finish(p, PassedThrough(path, h[1], h[2]))
         ELSE \E authorization \in Authorizations :
                LET token == extract_certificate_token(authorization)
                IN IF ~token.some
                   THEN Finish(p, Rejected(path, AuthClass(authorization), "none",
                                           FALSE, 401, NoBody))
                   ELSE Continue(p, [pc |-> "vc_cleanup", kind |-> "protected",
                                     path |-> path, token |-> token.token,
                                     expiredAtStart |-> ExpiredAt(token.token, now)])
    /\ UNCHANGED <<now, challenges, certificates, powCfg, certCfg, libCfg, lockVars, nextChallengeId,
                   nextCertificateId, okCount, issuedFor, issued, generated, evVars>>

\* validate_certificate: cleanup_expired_certificates(); cleaned remembers
\* whether the call removed a record
VcCleanup(p) ==
    /\ req[p].pc = "vc_cleanup"
    /\ certificates' = cleanup_expired_certificates(certificates, now)
    /\ Continue(p, [pc |-> "vc_lookup", kind |-> "protected",
                    token |-> req[p].token,
                    expiredAtStart |-> req[p].expiredAtStart,
                    cleaned |-> certificates' # certificates])
    /\ UNCHANGED <<now, challenges, powCfg, certCfg, libCfg, lockVars, nextChallengeId,
                   nextCertificateId, okCount, issuedFor, issued, generated, evVars>>

\* Variant of the answer that maps a missing certificate to 404, as
\* AppError::NotFound would
VcFailed_NotFound404(r, error) ==
    Rejected(NoPath, "bearer", error, r.expiredAtStart,
             IF error = "not_found" THEN 404 ELSE 401, NoBody)

\* The middleware's answer when validate_certificate returns Err(error): 401
VcFailed(r, error) ==
    Rejected(NoPath, "bearer", error, r.expiredAtStart, 401, NoBody)

\* Variant of the lookup that goes on to the body without the expiry and
\* signature checks
VcLookup_SkipsCheck(p) ==
    /\ req[p].pc = "vc_lookup"
    /\ LET r == req[p]
           extracted == extract_certificate_id_from_token(r.token)
       IN IF extracted.err # "none"
          THEN Finish(p, VcFailed(r, extracted.err))
          ELSE IF extracted.id \notin DOMAIN certificates
          THEN Finish(p, VcFailed(r, "not_found"))
          ELSE LET c == certificates[extracted.id]
               IN Continue(p, [pc |-> "mw_buffer", kind |-> "protected",
                               token |-> r.token, cleaned |-> r.cleaned,
                               validation |-> [relay_id |-> c.relay_id,
                                               public_key |-> c.public_key,
                                               expires_at |-> c.expires_at]])
    /\ UNCHANGED <<now, challenges, certificates, powCfg, certCfg, libCfg, lockVars, nextChallengeId,
                   nextCertificateId, okCount, issuedFor, issued, generated, evVars>>

\* validate_certificate: extract the certificate id, look the record up
VcLookup(p) ==
    /\ req[p].pc = "vc_lookup"
    /\ LET r == req[p]
           extracted == extract_certificate_id_from_token(r.token)
       IN IF extracted.err # "none"
          THEN Finish(p, VcFailed(r, extracted.err))
          ELSE IF extracted.id \notin DOMAIN certificates
          THEN Finish(p, VcFailed(r, "not_found"))
          ELSE Continue(p, [r @@ [certificate |-> certificates[extracted.id]]
                              EXCEPT !.pc = "vc_check"])
    /\ UNCHANGED <<now, challenges, certificates, powCfg, certCfg, libCfg, lockVars, nextChallengeId,
                   nextCertificateId, okCount, issuedFor, issued, generated, evVars>>

\* Variant of the checks that takes the certificate out of the store when it
\* returns Ok
VcCheck_ConsumesCertificate(p) ==
    /\ req[p].pc = "vc_check"
    /\ LET r == req[p]
           c == r.certificate
           cert_data == CertData(c.certificate_id, c.relay_id, c.public_key, c.expires_at)
       IN IF now > c.expires_at
          THEN /\ Continue(p, [r EXCEPT !.pc = "vc_remove"])
               /\ UNCHANGED certificates
          ELSE IF ~verify_certificate_signature(cert_data, c.signature)
          THEN /\ Finish(p, VcFailed(r, "invalid_signature"))
               /\ UNCHANGED certificates
          ELSE /\ certificates' = MapRemove(certificates, c.certificate_id)
               /\ Continue(p, [pc |-> "mw_buffer", kind |-> "protected",
                               token |-> r.token, cleaned |-> r.cleaned,
                               validation |-> [relay_id |-> c.relay_id,
                                               public_key |-> c.public_key,
                                               expires_at |-> c.expires_at]])
    /\ UNCHANGED <<now, challenges, powCfg, certCfg, libCfg, lockVars, nextChallengeId,
                   nextCertificateId, okCount, issuedFor, issued, generated, evVars>>

\* validate_certificate: expiry check, signature check, the result
VcCheck(p) ==
    /\ req[p].pc = "vc_check"
    /\ LET r == req[p]
           c == r.certificate
           cert_data == CertData(c.certificate_id, c.relay_id, c.public_key, c.expires_at)
       IN IF now > c.expires_at
          THEN Continue(p, [r EXCEPT !.pc = "vc_remove"])
          ELSE IF ~verify_certificate_signature(cert_data, c.signature)
          THEN Finish(p, VcFailed(r, "invalid_signature"))
          ELSE Continue(p, [pc |-> "mw_buffer", kind |-> "protected",
                            token |-> r.token, cleaned |-> r.cleaned,
                            validation |-> [relay_id |-> c.relay_id,
                                            public_key |-> c.public_key,
                                            expires_at |-> c.expires_at]])
    /\ UNCHANGED <<now, challenges, certificates, powCfg, certCfg, libCfg, lockVars, nextChallengeId,
                   nextCertificateId, okCount, issuedFor, issued, generated, evVars>>

\* validate_certificate: remove the expired certificate, return the error
VcRemove(p) ==
    /\ req[p].pc = "vc_remove"
    /\ certificates' = MapRemove(certificates, req[p].certificate.certificate_id)
    /\ Finish(p, VcFailed(req[p], "expired"))
    /\ UNCHANGED <<now, challenges, powCfg, certCfg, libCfg, lockVars, nextChallengeId,
                   nextCertificateId, okCount, issuedFor, issued, generated, evVars>>

\* axum::body::to_bytes fails: 400
MwBufferFail(p) ==
    /\ req[p].pc = "mw_buffer"
    /\ Finish(p, Rejected(NoPath, "bearer", "ok", FALSE, 400, NoBody))
    /\ UNCHANGED <<now, challenges, certificates, powCfg, certCfg, libCfg, lockVars, nextChallengeId,
                   nextCertificateId, okCount, issuedFor, issued, generated, evVars>>

\* Variant of the body step that verifies a JWS whatever the body parses as
MwBuffer_VerifiesEveryBody(p) ==
    /\ req[p].pc = "mw_buffer"
    /\ \E body_bytes \in Bodies :
         LET r == req[p]
             verified == verify_jwt_event_data(body_bytes.jwt, r.validation.public_key)
             header == ValidatedRelayHeader(r.validation.relay_id)
         IN IF verified.ok
            THEN Finish(p, Forwarded(NoPath, "bearer", "ok", header, body_bytes,
                                     body_bytes, verified.payload))
            ELSE Finish(p, Rejected(NoPath, "bearer", "ok", FALSE, 401, body_bytes))
    /\ UNCHANGED <<now, challenges, certificates, powCfg, certCfg, libCfg, lockVars, nextChallengeId,
                   nextCertificateId, okCount, issuedFor, issued, generated, evVars>>

\* Variant of the body step that forwards a non-envelope request with the
\* drained body instead of the buffered bytes
MwBuffer_ForwardsDrainedBody(p) ==
    /\ req[p].pc = "mw_buffer"
    /\ \E body_bytes \in Bodies :
         LET r == req[p]
             verified == verify_jwt_event_data(body_bytes.jwt, r.validation.public_key)
             header == ValidatedRelayHeader(r.validation.relay_id)
         IN IF ParsesAsEnvelope(body_bytes)
            THEN IF verified.ok
                 THEN Finish(p, Forwarded(NoPath, "bearer", "ok", header, body_bytes,
                                          body_bytes, verified.payload))
                 ELSE Finish(p, Rejected(NoPath, "bearer", "ok", FALSE, 401, body_bytes))
            ELSE Finish(p, Forwarded(NoPath, "bearer", "ok", header, body_bytes,
                                     NoBody, "none"))
    /\ UNCHANGED <<now, challenges, certificates, powCfg, certCfg, libCfg, lockVars, nextChallengeId,
                   nextCertificateId, okCount, issuedFor, issued, generated, evVars>>

\* axum::body::to_bytes yields the bytes the client sent; envelope parse, JWS
\* verification, header insertion, Body::from(body_bytes) and next.run(request)
MwBuffer(p) ==
    /\ req[p].pc = "mw_buffer"
    /\ \E body_bytes \in Bodies :
         LET r == req[p]
             verified == verify_jwt_event_data(body_bytes.jwt, r.validation.public_key)
             header == ValidatedRelayHeader(r.validation.relay_id)
         IN IF ParsesAsEnvelope(body_bytes)
            THEN IF verified.ok
                 THEN Finish(p, Forwarded(NoPath, "bearer", "ok", header, body_bytes,
                                          body_bytes, verified.payload))
                 ELSE Finish(p, Rejected(NoPath, "bearer", "ok", FALSE, 401, body_bytes))
            ELSE Finish(p, Forwarded(NoPath, "bearer", "ok", header, body_bytes,
                                     body_bytes, "none"))
    /\ UNCHANGED <<now, challenges, certificates, powCfg, certCfg, libCfg, lockVars, nextChallengeId,
                   nextCertificateId, okCount, issuedFor, issued, generated, evVars>>

\* ------------------------------------------------------------ specifications
TypeInit ==
    /\ now = 0
    /\ challenges = EmptyMap
    /\ certificates = EmptyMap
    /\ nextChallengeId = 1
    /\ nextCertificateId = 1
    /\ req = [p \in Procs |-> Idle]
    /\ okCount = EmptyMap
    /\ issuedFor = EmptyMap
    /\ issued = {}
    /\ generated = EmptyMap
    /\ bucket = {}
    /\ route = [p \in Procs |-> NoRoute]

\* The PoW endpoints: challenges are issued, solved and turned into certificates
InitPow ==
    /\ TypeInit
    /\ default_difficulty = DefaultDifficulty
    /\ challenge_lifetime = MaxLifetime
    /\ certificate_lifetime = MaxCertLifetime
    /\ aud_unset_rejected = TRUE
    /\ held = Unlocked

NextPow ==
    \/ Tick
    \/ \E p \in Procs :
        \/ GenerateChallenge(p)
        \/ PowVerifyStart(p)
        \/ VsGet(p)
        \/ VsCheck(p)
        \/ VsRemoveExpired(p)
        \/ VsRemoveUsed(p)
        \/ IcCleanup(p)
        \/ IcMint(p)
        \/ IcInsert(p)

SpecPow == InitPow /\ [][NextPow]_vars

\* Protected requests: certificates are issued and presented to the middleware
InitAuth ==
    /\ TypeInit
    /\ default_difficulty = DefaultDifficulty
    /\ challenge_lifetime = MaxLifetime
    /\ certificate_lifetime \in {0, MaxCertLifetime}
    /\ aud_unset_rejected = TRUE
    /\ held = Unlocked

NextAuth ==
    \/ Tick
    \/ \E p \in Procs :
        \/ IssueStart(p)
        \/ IcCleanup(p)
        \/ IcMint(p)
        \/ IcInsert(p)
        \/ MwStart(p)
        \/ VcCleanup(p)
        \/ VcLookup(p)
        \/ VcCheck(p)
        \/ VcRemove(p)
        \/ MwBufferFail(p)
        \/ MwBuffer(p)

SpecAuth == InitAuth /\ [][NextAuth]_vars

\* ------------------------------------------------------ difficulty check
\* Byte values of hashes: zero, low nibble only, and high nibble set
HashBytes == {0, 1, 15, 16, 255}

\* Byte sequences of length n over HashBytes
BytesOfLen(n) == [1..n -> HashBytes]

\* Hash texts on which the difficulty test is exercised
DifficultyHashes ==
    {Base64Encode(bytes) : bytes \in UNION {BytesOfLen(n) : n \in 0..MaxHashLen}}
    \cup {NotBase64}

\* The difficulty step of verify_solution is entered with a computed hash and
\* the challenge's difficulty
InitDifficulty ==
    /\ now = 0
    /\ challenges = EmptyMap
    /\ certificates = EmptyMap
    /\ nextChallengeId = 1
    /\ nextCertificateId = 1
    /\ okCount = EmptyMap
    /\ issuedFor = EmptyMap
    /\ issued = {}
    /\ generated = EmptyMap
    /\ bucket = {}
    /\ route = [p \in Procs |-> NoRoute]
    /\ default_difficulty = DefaultDifficulty
    /\ challenge_lifetime = MaxLifetime
    /\ certificate_lifetime = MaxCertLifetime
    /\ aud_unset_rejected = TRUE
    /\ held = Unlocked
    /\ \E hash \in DifficultyHashes, difficulty \in 0..MaxDifficulty :
         req = [p \in Procs |-> [pc |-> "md_call", kind |-> "difficulty_check",
                                 hash |-> hash, difficulty |-> difficulty]]

\* verify_solution: meets_difficulty(&computed_hash, challenge.difficulty) and
\* the error returned when it is false
DifficultyCheck(p) ==
    /\ req[p].pc = "md_call"
    /\ LET r == req[p]
           result == meets_difficulty(r.hash, r.difficulty)
       IN Finish(p, [kind |-> "difficulty_check", hash |-> r.hash,
                     difficulty |-> r.difficulty, result |-> result,
                     vs_result |-> IF result.err THEN "invalid_base64"
                                   ELSE IF ~result.meets THEN "difficulty"
                                   ELSE "ok"])
    /\ UNCHANGED <<now, challenges, certificates, powCfg, certCfg, libCfg, lockVars, nextChallengeId,
                   nextCertificateId, okCount, issuedFor, issued, generated, evVars>>

NextDifficulty == \E p \in Procs : DifficultyCheck(p)

SpecDifficulty == InitDifficulty /\ [][NextDifficulty]_vars

\* ------------------------------------------------------------ event packages
\* EventAnnotation values of the model
Annotation(label_id) == [label_id |-> label_id, value |-> "test_value", timestamp |-> 0]

\* Option<EventMedia> values of the model
NoMedia == [some |-> FALSE]
Media == [some |-> TRUE, media_type |-> "image/png", data |-> "aGVsbG8=", name |-> "photo.png",
          size |-> 5, last_modified |-> 0]

\* EventPackage values clients send: two packages that differ only in
\* metadata.created_by, one with media, and one without annotations
EventPackage(id, annotations, media, created_by) ==
    [id |-> id, version |-> "1.0", annotations |-> annotations, media |-> media,
     metadata |-> [created_at |-> 0, created_by |-> created_by, source |-> "web"]]

EventPackages ==
    {EventPackage(1, <<Annotation("test_label")>>, NoMedia, "alice"),
     EventPackage(1, <<Annotation("test_label")>>, NoMedia, "bob"),
     EventPackage(2, <<Annotation("test_label")>>, Media, "alice"),
     EventPackage(3, <<>>, NoMedia, "alice")}

\* EventPackage::validate, is_valid
validate(ep) ==
    /\ ep.annotations # <<>>
    /\ ep.version # ""
    /\ \A i \in 1..Len(ep.annotations) : ep.annotations[i].label_id # ""
    /\ ep.media.some =>
          /\ ep.media.data # ""
          /\ ep.media.name # ""
          /\ ep.media.size # 0

\* Variant of the hash input that takes the whole package
create_hash_input_WholePackage(ep) == ep

\* EventPackage::create_hash_input
create_hash_input(ep) ==
    [id |-> ep.id,
     annotations |-> ep.annotations,
     media |-> IF ~ep.media.some THEN "null"
               ELSE [type |-> ep.media.media_type, size |-> ep.media.size,
                     name |-> ep.media.name],
     createdAt |-> ep.metadata.created_at]

\* serde_json::to_string: the compact JSON text of a value
to_string(value) == [json_text_of |-> value]

\* A number that tells the JSON texts of the model apart
TextCode(text) ==
    LET v == text.json_text_of
    IN IF "createdAt" \in DOMAIN v
       THEN 2 * v.id
       ELSE 2 * v.id + 1 + (IF v.metadata.created_by = "alice" THEN 0 ELSE 8)
                         + (IF v.version = "1.0" THEN 0 ELSE 16)
                         + (IF v.metadata.source = "web" THEN 0 ELSE 32)
                         + (IF v.media.some /\ v.media.data # "aGVsbG8=" THEN 64 ELSE 0)
                         + (IF v.media.some /\ v.media.last_modified # 0 THEN 128 ELSE 0)

\* Sha256::digest of a JSON text: 32 bytes, different for different texts
Sha256Digest(text) ==
    [i \in 1..32 |-> IF i = 1 THEN TextCode(text)
                     ELSE (TextCode(text) * 31 + i * 89) % 256]

\* The digits of the {:x} and {:X} formats
LowerHexDigits == <<"0", "1", "2", "3", "4", "5", "6", "7", "8", "9",
                    "a", "b", "c", "d", "e", "f">>
UpperHexDigits == <<"0", "1", "2", "3", "4", "5", "6", "7", "8", "9",
                    "A", "B", "C", "D", "E", "F">>

\* Two digits per byte, high nibble first
HexFormat(bytes, digits) ==
    [k \in 1..(2 * Len(bytes)) |->
        LET b == bytes[(k + 1) \div 2]
        IN digits[(IF k % 2 = 1 THEN b \div 16 ELSE b % 16) + 1]]

\* Variant of the hash that formats the digest in upper case
generate_event_hash_UpperCase(ep) ==
    HexFormat(Sha256Digest(to_string(create_hash_input(ep))), UpperHexDigits)

\* EventService::generate_event_hash: format!("{:x}", Sha256(to_string(create_hash_input)))
generate_event_hash(ep) ==
    HexFormat(Sha256Digest(to_string(create_hash_input(ep))), LowerHexDigits)

\* upload_zip_file: format!("{:x}", Sha256::digest(serde_json::to_string(event_package)))
zip_event_hash(ep) == HexFormat(Sha256Digest(to_string(ep)), LowerHexDigits)

\* ------------------------------------------------------------------ storage
\* Utc::now().format(fmt) at time t
FormatDate(fmt, t) == [format |-> fmt, at |-> t]

\* The last segment of an object key: <stem>.<ext>
FileName(stem, ext) == [stem |-> stem, ext |-> ext]

\* StorageService::generate_storage_key at time t:
\* events/<%Y/%m/%d>/<first 8 of hash>/<event id>.json
generate_storage_key(event_hash, event_id, t) ==
    <<"events", FormatDate("%Y", t), FormatDate("%m", t), FormatDate("%d", t),
      SubSeq(event_hash, 1, 8), FileName(event_id, "json")>>

\* StorageService::generate_storage_key_from_hash: events/by-hash/<hash>.json
generate_storage_key_from_hash(event_hash) ==
    <<"events", "by-hash", FileName(event_hash, "json")>>

\* StorageConfig::generate_event_key at time t: events/<%Y>/<%m>/<hash>.<ext>
generate_event_key(event_hash, file_extension, t) ==
    <<"events", FormatDate("%Y", t), FormatDate("%m", t),
      FileName(event_hash, file_extension)>>

\* S3 put_object of the data of package ep under key
PutObject(key, format, ep) == [key |-> key, format |-> format, package |-> ep]

\* RealS3Client::head_object: true iff the bucket has an object under key
head_object(key) == \E o \in bucket : o.key = key

\* StorageService::event_exists
event_exists(event_hash) == head_object(generate_storage_key_from_hash(event_hash))

\* An object another writer put under the by-hash key of the first package
ForeignObject ==
    PutObject(generate_storage_key_from_hash(
                 generate_event_hash(EventPackage(1, <<Annotation("test_label")>>,
                                                  NoMedia, "alice"))),
              "json", [id |-> 0])

\* ------------------------------------------------------------ events routes
\* Hash path parameters clients send: the hash of a package, the same with a
\* character missing, and with a character added
VerifyHashes ==
    LET h == generate_event_hash(EventPackage(1, <<Annotation("test_label")>>,
                                              NoMedia, "alice"))
    IN {h, SubSeq(h, 1, Len(h) - 1), h \o <<"0">>}

\* Requests to the routes of controllers::event::routes, with their full paths
EventRoutes ==
    {[kind |-> "receive_event", path |-> <<"api", "v1", "events">>,
      package |-> ep, hash |-> <<>>] : ep \in EventPackages}
    \cup {[kind |-> "receive_event_package",
           path |-> <<"api", "v1", "events", "package">>,
           package |-> ep, hash |-> <<>>] : ep \in EventPackages}
    \cup {[kind |-> "verify_event_hash",
           path |-> <<"api", "v1", "events", h, "verify">>,
           package |-> [id |-> 0], hash |-> h] : h \in VerifyHashes}

\* Authorization headers sent to the events routes: none, or a token the
\* server issued
EventAuthorizations ==
    {NoAuthorization} \cup {Bearer(e.token) : e \in issued}

\* The objects the server has put into the bucket
Stored == {o \in bucket : o.package # [id |-> 0]}

\* Router::nest("/api/v1", ...): the inner router and its middleware see the
\* path without the prefix
nested_path(path) == SubSeq(path, 3, Len(path))

\* The request of worker p was forwarded by the middleware and waits for its
\* handler
Pending(p) ==
    /\ req[p].pc = "done"
    /\ req[p].kind = "protected"
    /\ req[p].forwarded
    /\ route[p] # NoRoute

\* What a handler of the events routes answers
EventResponse(status, hash, exists, key) ==
    [kind |-> "events", status |-> status, hash |-> hash, exists |-> exists,
     key |-> key]
NoKey == <<>>

\* A request to an events route reaches crypto_validation_middleware
EvStart(p) ==
    /\ Free(p)
    /\ ~Pending(p)
    /\ \E r \in EventRoutes, authorization \in EventAuthorizations :
         LET path == nested_path(r.path)
             token == extract_certificate_token(authorization)
         IN /\ r.kind # "verify_event_hash" => Cardinality(Stored) < MaxObjects
            /\ route' = [route EXCEPT ![p] = r @@ [auth |-> AuthClass(authorization)]]
            /\ IF should_skip_validation(path)
               THEN \E inbound \in InboundRelayHeaders :
                      Finish(p, PassedThrough(path, AuthClass(authorization), inbound))
               ELSE IF ~token.some
               THEN Finish(p, Rejected(path, AuthClass(authorization), "none",
                                       FALSE, 401, NoBody))
               ELSE Continue(p, [pc |-> "vc_cleanup", kind |-> "protected",
                                 path |-> path, token |-> token.token,
                                 expiredAtStart |-> ExpiredAt(token.token, now)])
    /\ UNCHANGED <<now, challenges, certificates, powCfg, certCfg, libCfg, lockVars, nextChallengeId,
                   nextCertificateId, okCount, issuedFor, issued, generated, bucket>>

\* The Json<EventPackage> extractor rejects a body that is not an EventPackage
JsonRejected(p) == ParsesAsEnvelope(req[p].fwd_body)

\* receive_event: let relay_id = "authenticated_relay_id".to_string()
PlaceholderRelayId == "authenticated_relay_id"

\* What receive_event answers, with the relay_id it handed to process_event
\* and the X-Validated-Relay-ID header the request arrived with
ProcessEventResponse(p, status, hash, key) ==
    EventResponse(status, hash, FALSE, key)
       @@ [relay_id |-> PlaceholderRelayId,
           fwd_relay_header |-> req[p].fwd_relay_header]

\* POST /events: receive_event, process_event and store_event
ReceiveEvent(p) ==
    /\ Pending(p)
    /\ route[p].kind = "receive_event"
    /\ LET ep == route[p].package
           event_hash == generate_event_hash(ep)
           storage_key == generate_storage_key(event_hash, ep.id, now)
       IN IF JsonRejected(p)
          THEN /\ Finish(p, EventResponse(422, <<>>, FALSE, NoKey))
               /\ UNCHANGED bucket
          ELSE IF ~validate(ep)
          THEN /\ Finish(p, ProcessEventResponse(p, 400, <<>>, NoKey))
               /\ UNCHANGED bucket
          ELSE \/ /\ bucket' = bucket \cup {PutObject(storage_key, "json", ep)}
                  /\ Finish(p, ProcessEventResponse(p, 200, event_hash, storage_key))
               \/ /\ Finish(p, ProcessEventResponse(p, 500, <<>>, NoKey))
                  /\ UNCHANGED bucket
    /\ UNCHANGED <<now, challenges, certificates, powCfg, certCfg, libCfg, lockVars, nextChallengeId,
                   nextCertificateId, okCount, issuedFor, issued, generated, route>>

\* POST /events/package: receive_event_package, ZipPackager and upload_zip_file
ReceiveEventPackage(p) ==
    /\ Pending(p)
    /\ route[p].kind = "receive_event_package"
    /\ LET ep == route[p].package
           event_hash == zip_event_hash(ep)
           storage_key == generate_event_key(event_hash, "zip", now)
       IN IF JsonRejected(p)
          THEN /\ Finish(p, EventResponse(422, <<>>, FALSE, NoKey))
               /\ UNCHANGED bucket
          ELSE IF ~validate(ep)
          THEN /\ Finish(p, EventResponse(400, <<>>, FALSE, NoKey))
               /\ UNCHANGED bucket
          ELSE \/ /\ bucket' = bucket \cup {PutObject(storage_key, "zip", ep)}
                  /\ Finish(p, EventResponse(200, event_hash, FALSE, storage_key))
               \/ /\ Finish(p, EventResponse(500, <<>>, FALSE, NoKey))
                  /\ UNCHANGED bucket
    /\ UNCHANGED <<now, challenges, certificates, powCfg, certCfg, libCfg, lockVars, nextChallengeId,
                   nextCertificateId, okCount, issuedFor, issued, generated, route>>

\* Variant of the handler that accepts every hash of at most 64 characters
VerifyEventHash_AtMost64(p) ==
    /\ Pending(p)
    /\ route[p].kind = "verify_event_hash"
    /\ LET hash == route[p].hash
       IN IF Len(hash) > 64
          THEN Finish(p, EventResponse(400, hash, FALSE, NoKey))
          ELSE Finish(p, EventResponse(200, hash, event_exists(hash),
                                       generate_storage_key_from_hash(hash)))
    /\ UNCHANGED <<now, challenges, certificates, powCfg, certCfg, libCfg, lockVars, nextChallengeId,
                   nextCertificateId, okCount, issuedFor, issued, generated, evVars>>

\* GET /events/:hash/verify: verify_event_hash and event_exists
VerifyEventHash(p) ==
    /\ Pending(p)
    /\ route[p].kind = "verify_event_hash"
    /\ LET hash == route[p].hash
       IN IF Len(hash) # 64
          THEN Finish(p, EventResponse(400, hash, FALSE, NoKey))
          ELSE Finish(p, EventResponse(200, hash, event_exists(hash),
                                       generate_storage_key_from_hash(hash)))
    /\ UNCHANGED <<now, challenges, certificates, powCfg, certCfg, libCfg, lockVars, nextChallengeId,
                   nextCertificateId, okCount, issuedFor, issued, generated, evVars>>

\* The time at which the relay obtained its certificate
InitTime == 0 - 1

\* The certificate a relay obtained from POST /pow/verify at InitTime
InitCertificate ==
    LET expires_at == InitTime + MaxCertLifetime
    IN [certificate_id |-> 1, relay_id |-> "relay_1", public_key |-> "pk_1",
        issued_at |-> InitTime, expires_at |-> expires_at,
        signature |-> sign_certificate_data(CertData(1, "relay_1", "pk_1", expires_at))]

\* The events endpoints: a relay holds a certificate, the bucket is empty or
\* holds an object of another writer
InitEvents ==
    /\ now = InitTime
    /\ challenges = EmptyMap
    /\ certificates = MapInsert(EmptyMap, 1, InitCertificate)
    /\ default_difficulty = DefaultDifficulty
    /\ challenge_lifetime = MaxLifetime
    /\ certificate_lifetime = MaxCertLifetime
    /\ aud_unset_rejected = TRUE
    /\ held = Unlocked
    /\ nextChallengeId = 1
    /\ nextCertificateId = 2
    /\ req = [p \in Procs |-> Idle]
    /\ okCount = EmptyMap
    /\ issuedFor = EmptyMap
    /\ issued = {[token |-> generate_certificate_token(InitCertificate),
                  certificate_id |-> 1, relay_id |-> "relay_1",
                  public_key |-> "pk_1", expires_at |-> InitCertificate.expires_at]}
    /\ generated = EmptyMap
    /\ bucket \in {{}, {ForeignObject}}
    /\ route = [p \in Procs |-> NoRoute]

\* The workers that serve the events routes
EventWorkers == {p \in Procs : p = 1}

NextEvents ==
    \/ Tick
    \/ \E p \in EventWorkers :
        \/ EvStart(p)
        \/ VcCleanup(p)
        \/ VcLookup(p)
        \/ VcCheck(p)
        \/ VcRemove(p)
        \/ MwBufferFail(p)
        \/ MwBuffer(p)
        \/ ReceiveEvent(p)
        \/ ReceiveEventPackage(p)
        \/ VerifyEventHash(p)

SpecEvents == InitEvents /\ [][NextEvents]_vars

\* ---------------------------------------------------- challenge generation
\* The challenge an earlier generate_challenge call stored at InitTime, under
\* an id no later call draws
EarlierChallenge(difficulty, lifetime) ==
    [challenge_id |-> 0, challenge_data |-> ChallengeData(0),
     difficulty |-> difficulty, expires_at |-> InitTime + lifetime,
     created_at |-> InitTime]

\* PowService::with_params(difficulty, lifetime_minutes): the store is empty
\* or holds a challenge generated earlier
InitGenerate ==
    /\ now = InitTime
    /\ default_difficulty \in 0..MaxDifficulty
    /\ challenge_lifetime \in 0..MaxLifetime
    /\ certificate_lifetime = MaxCertLifetime
    /\ aud_unset_rejected = TRUE
    /\ held = Unlocked
    /\ \E earlier \in BOOLEAN :
         LET c == EarlierChallenge(default_difficulty, challenge_lifetime)
         IN /\ challenges = IF earlier THEN MapInsert(EmptyMap, 0, c) ELSE EmptyMap
            /\ generated = challenges
            /\ okCount = [k \in DOMAIN challenges |-> 0]
            /\ issuedFor = [k \in DOMAIN challenges |-> 0]
    /\ certificates = EmptyMap
    /\ nextChallengeId = 1
    /\ nextCertificateId = 1
    /\ req = [p \in Procs |-> Idle]
    /\ issued = {}
    /\ bucket = {}
    /\ route = [p \in Procs |-> NoRoute]

NextGenerate ==
    \/ Tick
    \/ \E p \in Procs : GenerateChallenge(p)

SpecGenerate == InitGenerate /\ [][NextGenerate]_vars

\* ------------------------------------------------------------ body buffering
\* The certificate with this id, issued at time t to a relay
CertificateIssuedAt(id, relay_id, public_key, t, lifetime) ==
    [certificate_id |-> id, relay_id |-> relay_id, public_key |-> public_key,
     issued_at |-> t, expires_at |-> t + lifetime,
     signature |-> sign_certificate_data(CertData(id, relay_id, public_key, t + lifetime))]

\* What issue_certificate returned for a certificate
IssuedEntry(c) ==
    [token |-> generate_certificate_token(c), certificate_id |-> c.certificate_id,
     relay_id |-> c.relay_id, public_key |-> c.public_key,
     expires_at |-> c.expires_at]

\* Protected requests of relays that hold certificates: one certificate was
\* issued long enough ago to have expired, unless its relay never came, and
\* one has just been issued
InitBuffer ==
    /\ now = InitTime
    /\ challenges = EmptyMap
    /\ default_difficulty = DefaultDifficulty
    /\ challenge_lifetime = MaxLifetime
    /\ certificate_lifetime = MaxCertLifetime
    /\ aud_unset_rejected = TRUE
    /\ held = Unlocked
    /\ \E older \in BOOLEAN :
         LET a == CertificateIssuedAt(1, "relay_1", "pk_2",
                                      InitTime - MaxCertLifetime - 1, MaxCertLifetime)
             b == CertificateIssuedAt(2, "relay_1", "pk_1", InitTime, MaxCertLifetime)
         IN /\ certificates = IF older
                              THEN MapInsert(MapInsert(EmptyMap, 1, a), 2, b)
                              ELSE MapInsert(EmptyMap, 2, b)
            /\ issued = IF older THEN {IssuedEntry(a), IssuedEntry(b)}
                        ELSE {IssuedEntry(b)}
    /\ nextChallengeId = 1
    /\ nextCertificateId = 3
    /\ req = [p \in Procs |-> Idle]
    /\ okCount = EmptyMap
    /\ issuedFor = EmptyMap
    /\ generated = EmptyMap
    /\ bucket = {}
    /\ route = [p \in Procs |-> NoRoute]

NextBuffer ==
    \/ Tick
    \/ \E p \in Procs :
        \/ MwStart(p)
        \/ VcCleanup(p)
        \/ VcLookup(p)
        \/ VcCheck(p)
        \/ VcRemove(p)
        \/ MwBufferFail(p)
        \/ MwBuffer(p)

SpecBuffer == InitBuffer /\ [][NextBuffer]_vars

\* --------------------------------------------------------- certificate store
\* Ids of the certificates issued before the run starts
OlderId == 0 - 1
RecentId == 0

\* issue_certificate and validate_certificate on a store in use: a recent
\* certificate is live, an older one has expired unless it was never issued,
\* and further certificates can be issued
InitStore ==
    /\ now = InitTime
    /\ challenges = EmptyMap
    /\ default_difficulty = DefaultDifficulty
    /\ challenge_lifetime = MaxLifetime
    /\ certificate_lifetime = MaxCertLifetime
    /\ aud_unset_rejected = TRUE
    /\ held = Unlocked
    /\ \E older \in BOOLEAN :
         LET a == CertificateIssuedAt(OlderId, "relay_1", "pk_2",
                                      InitTime - MaxCertLifetime - 1, MaxCertLifetime)
             b == CertificateIssuedAt(RecentId, "relay_1", "pk_1", InitTime,
                                      MaxCertLifetime)
         IN /\ certificates = IF older
                              THEN MapInsert(MapInsert(EmptyMap, OlderId, a), RecentId, b)
                              ELSE MapInsert(EmptyMap, RecentId, b)
            /\ issued = IF older THEN {IssuedEntry(a), IssuedEntry(b)}
                        ELSE {IssuedEntry(b)}
    /\ nextChallengeId = 1
    /\ nextCertificateId = 1
    /\ req = [p \in Procs |-> Idle]
    /\ okCount = EmptyMap
    /\ issuedFor = EmptyMap
    /\ generated = EmptyMap
    /\ bucket = {}
    /\ route = [p \in Procs |-> NoRoute]

\* The worker that serves the issuing requests, and the one that serves the
\* protected requests
Issuers == {p \in Procs : p = 1}
Validators == Procs \ Issuers

NextStore ==
    \/ Tick
    \/ \E p \in Issuers :
        \/ IssueStart(p)
        \/ IcCleanup(p)
        \/ IcMint(p)
        \/ IcInsert(p)
    \/ \E p \in Validators :
        \/ MwStart(p)
        \/ VcCleanup(p)
        \/ VcLookup(p)
        \/ VcCheck(p)
        \/ VcRemove(p)
        \/ MwBufferFail(p)
        \/ MwBuffer(p)

SpecStore == InitStore /\ [][NextStore]_vars

\* -------------------------------------------------------------------- locks
\* The store whose Mutex the next statement of request r locks, "none" when
\* that statement runs outside any lock
LockOf(r) ==
    CASE r.pc \in {"vs_get", "vs_remove_expired", "vs_remove_used"} -> "challenges"
      [] r.pc \in {"ic_cleanup", "ic_insert", "vc_cleanup", "vc_remove"} -> "certificates"
      [] r.pc = "vc_lookup" ->
            IF extract_certificate_id_from_token(r.token).err = "none"
            THEN "certificates" ELSE "none"
      [] OTHER -> "none"

\* The locks worker p holds
HeldBy(p) == {l \in Stores : held[l].owner = p}

\* Worker p is inside the block that locked l
InSection(p, l) == held[l] = [owner |-> p, at |-> req[p]]

\* Variant of the guard's scope that lasts until the request is answered
Stale_UntilAnswered(p) ==
    \E l \in HeldBy(p) : held[l].at # req[p] /\ req[p].pc = "done"

\* Worker p is at the closing brace of a block whose MutexGuard has not been
\* dropped yet
Stale(p) == \E l \in HeldBy(p) : held[l].at # req[p]

\* Worker p may run its next statement: the guards of the blocks it left are
\* dropped and the lock the statement needs is held
Ready(p) ==
    /\ ~Stale(p)
    /\ LockOf(req[p]) # "none" => InSection(p, LockOf(req[p]))

\* self.challenges.lock() / self.certificates.lock(): blocks while the Mutex
\* is held, by another worker or by the caller itself
LockAcquire(p) ==
    /\ ~Free(p)
    /\ ~Stale(p)
    /\ LockOf(req[p]) # "none"
    /\ held[LockOf(req[p])].owner = NoWorker
    /\ held' = [held EXCEPT ![LockOf(req[p])] = [owner |-> p, at |-> req[p]]]
    /\ UNCHANGED <<now, challenges, certificates, powCfg, certCfg, libCfg, nextChallengeId,
                   nextCertificateId, req, okCount, issuedFor, issued, generated, evVars>>

\* generate_challenge: self.challenges.lock() of a request that has just
\* arrived
GenerateLock(p) ==
    /\ Free(p)
    /\ HeldBy(p) = {}
    /\ nextChallengeId <= MaxChallenges
    /\ held["challenges"].owner = NoWorker
    /\ held' = [held EXCEPT !["challenges"] = [owner |-> p, at |-> req[p]]]
    /\ UNCHANGED <<now, challenges, certificates, powCfg, certCfg, libCfg, nextChallengeId,
                   nextCertificateId, req, okCount, issuedFor, issued, generated, evVars>>

\* The MutexGuard goes out of scope at the end of its block
LockRelease(p) ==
    /\ Stale(p)
    /\ held' = [l \in Stores |-> IF held[l].owner = p /\ held[l].at # req[p]
                                 THEN Unheld ELSE held[l]]
    /\ UNCHANGED <<now, challenges, certificates, powCfg, certCfg, libCfg, nextChallengeId,
                   nextCertificateId, req, okCount, issuedFor, issued, generated, evVars>>

\* generate_challenge, insert block
Lk_GenerateChallenge(p) == InSection(p, "challenges") /\ GenerateChallenge(p)

\* POST /api/v1/pow/verify arrives at a worker that has returned from its
\* last request; the solution has the first nonce, with a right or wrong hash
Lk_PowVerifyStart(p) ==
    HeldBy(p) = {} /\ PowVerifyStart(p) /\ req'[p].solution.nonce = 0

\* A protected request with a bearer token arrives: the middleware calls
\* validate_certificate
Lk_MwStart(p) ==
    /\ HeldBy(p) = {}
    /\ MwStart(p)
    /\ req'[p].pc = "vc_cleanup"
    /\ req'[p].path = <<"api", "v1", "events">>

\* verify_solution, lookup block
Lk_VsGet(p) == Ready(p) /\ VsGet(p)

\* verify_solution, checks outside any lock
Lk_VsCheck(p) == Ready(p) /\ VsCheck(p)

\* verify_solution, removal of the expired challenge
Lk_VsRemoveExpired(p) == Ready(p) /\ VsRemoveExpired(p)

\* verify_solution, removal of the used challenge
Lk_VsRemoveUsed(p) == Ready(p) /\ VsRemoveUsed(p)

\* issue_certificate, cleanup_expired_certificates
Lk_IcCleanup(p) == Ready(p) /\ IcCleanup(p)

\* issue_certificate, id, signature and token, outside any lock
Lk_IcMint(p) == Ready(p) /\ IcMint(p)

\* issue_certificate, insert block
Lk_IcInsert(p) == Ready(p) /\ IcInsert(p)

\* validate_certificate, cleanup_expired_certificates
Lk_VcCleanup(p) == Ready(p) /\ VcCleanup(p)

\* validate_certificate, token parsing and lookup block
Lk_VcLookup(p) == Ready(p) /\ VcLookup(p)

\* validate_certificate, checks outside any lock
Lk_VcCheck(p) == Ready(p) /\ VcCheck(p)

\* validate_certificate, removal of the expired certificate
Lk_VcRemove(p) == Ready(p) /\ VcRemove(p)

\* middleware, body step
Lk_MwBuffer(p) == Ready(p) /\ MwBuffer(p) /\ ~ParsesAsEnvelope(req'[p].body)

\* middleware, body step failing
Lk_MwBufferFail(p) == Ready(p) /\ MwBufferFail(p)

\* The PoW endpoints and the protected requests, with the Mutex of each store
\* taken and dropped where the code takes and drops it.  The service has run
\* for a while: the challenges generated so far are gone from the store, one
\* more can be generated and the clock can pass one expiry.
InitLocks ==
    /\ now = MaxTime - 1
    /\ challenges = EmptyMap
    /\ certificates = EmptyMap
    /\ default_difficulty = DefaultDifficulty
    /\ challenge_lifetime = 0
    /\ certificate_lifetime = 0
    /\ aud_unset_rejected = TRUE
    /\ held = Unlocked
    /\ nextChallengeId = MaxChallenges
    /\ nextCertificateId = 1
    /\ req = [p \in Procs |-> Idle]
    /\ okCount = EmptyMap
    /\ issuedFor = EmptyMap
    /\ issued = {}
    /\ generated = EmptyMap
    /\ bucket = {}
    /\ route = [p \in Procs |-> NoRoute]

NextLocks ==
    \/ Tick
    \/ \E p \in Procs :
        \/ GenerateLock(p)
        \/ LockAcquire(p)
        \/ LockRelease(p)
        \/ Lk_GenerateChallenge(p)
        \/ Lk_PowVerifyStart(p)
        \/ Lk_MwStart(p)
        \/ Lk_VsGet(p)
        \/ Lk_VsCheck(p)
        \/ Lk_VsRemoveExpired(p)
        \/ Lk_VsRemoveUsed(p)
        \/ Lk_IcCleanup(p)
        \/ Lk_IcMint(p)
        \/ Lk_IcInsert(p)
        \/ Lk_VcCleanup(p)
        \/ Lk_VcLookup(p)
        \/ Lk_VcCheck(p)
        \/ Lk_VcRemove(p)
        \/ Lk_MwBuffer(p)
        \/ Lk_MwBufferFail(p)

SpecLocks == InitLocks /\ [][NextLocks]_vars

\* ------------------------------------------------------- JWS verification
\* Device public key texts handed to the verifier
JwkTexts == PublicKeys \cup BadJwks \cup {"not_json"}

\* JWS texts handed to the verifier: signed by either key, payload intact or
\* altered, exp absent or at any time of the run, aud absent, as documented,
\* or another audience
JwsTexts ==
    {Jws(k, payload, "ep_1", exp, aud) :
        k \in PublicKeys, payload \in {"ep_1", "ep_2"},
        exp \in {NoExp} \cup {ExpAt(t) : t \in 0..MaxTime},
        aud \in {"absent", "event_server", "other"}}

\* verify_jwt_event_data is about to be called on a JWS and a key text, in a
\* build of either kind
InitJws ==
    /\ now = 0
    /\ challenges = EmptyMap
    /\ certificates = EmptyMap
    /\ default_difficulty = DefaultDifficulty
    /\ challenge_lifetime = MaxLifetime
    /\ certificate_lifetime = MaxCertLifetime
    /\ aud_unset_rejected \in BOOLEAN
    /\ held = Unlocked
    /\ nextChallengeId = 1
    /\ nextCertificateId = 1
    /\ \E jwt \in JwsTexts, public_key \in JwkTexts :
         req = [p \in Procs |-> [pc |-> "jws_call", kind |-> "jws", jwt |-> jwt,
                                 public_key |-> public_key]]
    /\ okCount = EmptyMap
    /\ issuedFor = EmptyMap
    /\ issued = {}
    /\ generated = EmptyMap
    /\ bucket = {}
    /\ route = [p \in Procs |-> NoRoute]

\* One call of verify_jwt_event_data, at the current time
VerifyJwtEventData(p) ==
    /\ req[p].pc = "jws_call"
    /\ LET r == req[p]
       IN Finish(p, [kind |-> "jws", jwt |-> r.jwt, public_key |-> r.public_key,
                     at |-> now,
                     result |-> verify_jwt_event_data(r.jwt, r.public_key)])
    /\ UNCHANGED <<now, challenges, certificates, powCfg, certCfg, libCfg, lockVars,
                   nextChallengeId, nextCertificateId, okCount, issuedFor, issued,
                   generated, evVars>>

NextJws ==
    \/ Tick
    \/ \E p \in Procs : VerifyJwtEventData(p)

SpecJws == InitJws /\ [][NextJws]_vars

\* ------------------------------------------------------------- event hash
\* EventPackage values that agree on id, annotations and created_at and take
\* every combination of two versions, media payloads, modification times,
\* authors and sources, with and without media
HashedPackages ==
    {[id |-> 1, version |-> version, annotations |-> <<Annotation("test_label")>>,
      media |-> media,
      metadata |-> [created_at |-> 0, created_by |-> created_by, source |-> source]] :
        version \in {"1.0", "2.0"},
        media \in {NoMedia}
                  \cup {[Media EXCEPT !.data = data, !.last_modified = last_modified] :
                           data \in {"aGVsbG8=", "d29ybGQ="}, last_modified \in {0, 1}},
        created_by \in {"alice", "bob"},
        source \in {"web", "mobile"}}

InitHash ==
    /\ now = 0
    /\ challenges = EmptyMap
    /\ certificates = EmptyMap
    /\ default_difficulty = DefaultDifficulty
    /\ challenge_lifetime = MaxLifetime
    /\ certificate_lifetime = MaxCertLifetime
    /\ aud_unset_rejected = TRUE
    /\ held = Unlocked
    /\ nextChallengeId = 1
    /\ nextCertificateId = 1
    /\ req \in [Procs -> {[pc |-> "event_hash", kind |-> "event_hash", package |-> ep,
                          hash |-> <<>>] : ep \in HashedPackages}]
    /\ okCount = EmptyMap
    /\ issuedFor = EmptyMap
    /\ issued = {}
    /\ generated = EmptyMap
    /\ bucket = {}
    /\ route = [p \in Procs |-> NoRoute]

\* let event_hash = self.generate_event_hash(&event_package)? of process_event
GenerateEventHash(p) ==
    /\ req[p].pc = "event_hash"
    /\ Finish(p, [kind |-> "event_hash", package |-> req[p].package,
                  hash |-> generate_event_hash(req[p].package)])
    /\ UNCHANGED <<now, challenges, certificates, powCfg, certCfg, libCfg, lockVars, nextChallengeId,
                   nextCertificateId, okCount, issuedFor, issued, generated, evVars>>

NextHash == \E p \in Procs : GenerateEventHash(p)

SpecHash == InitHash /\ [][NextHash]_vars

\* -------------------------------------------------------------- bootstrap
\* A client obtains a challenge, posts solutions and presents the token it
\* gets to the middleware; another client posts solutions at the same time
BootstrapClients == {p \in Procs : p = 1}
Competitors == Procs \ BootstrapClients

\* The service has run for a while: one more challenge can be generated, it
\* expires with the next tick of the clock, a certificate lives one tick and
\* the clock ticks twice
InitBootstrap ==
    /\ now = MaxTime - 2
    /\ challenges = EmptyMap
    /\ certificates = EmptyMap
    /\ default_difficulty = DefaultDifficulty
    /\ challenge_lifetime = 0
    /\ certificate_lifetime = 1
    /\ aud_unset_rejected = TRUE
    /\ held = Unlocked
    /\ nextChallengeId = MaxChallenges
    /\ nextCertificateId = 1
    /\ req = [p \in Procs |-> Idle]
    /\ okCount = EmptyMap
    /\ issuedFor = EmptyMap
    /\ issued = {}
    /\ generated = EmptyMap
    /\ bucket = {}
    /\ route = [p \in Procs |-> NoRoute]

\* POST /api/v1/pow/verify for the challenge the client obtained; the solution
\* has the first nonce, with a right or wrong hash
Bs_PowVerifyStart(p) ==
    /\ PowVerifyStart(p)
    /\ req'[p].solution.nonce = 0
    /\ req'[p].solution.challenge_id \in DOMAIN generated

\* A protected request with the token of an issued certificate arrives
Bs_MwStart(p) ==
    /\ MwStart(p)
    /\ req'[p].pc = "vc_cleanup"
    /\ req'[p].path = <<"api", "v1", "events">>
    /\ \E e \in issued : req'[p].token = e.token

NextBootstrap ==
    \/ Tick
    \/ \E p \in BootstrapClients :
        \/ GenerateChallenge(p)
        \/ Bs_MwStart(p)
        \/ VcCleanup(p)
        \/ VcLookup(p)
        \/ VcCheck(p)
        \/ VcRemove(p)
        \/ MwBufferFail(p)
        \/ MwBuffer(p)
    \/ \E p \in Procs :
        \/ Bs_PowVerifyStart(p)
        \/ VsGet(p)
        \/ VsCheck(p)
        \/ VsRemoveExpired(p)
        \/ VsRemoveUsed(p)
        \/ IcCleanup(p)
        \/ IcMint(p)
        \/ IcInsert(p)

\* A request that has been accepted is served to its answer: every step of
\* the handler of worker p
HandlerStep(p) ==
    \/ VsGet(p)
    \/ VsCheck(p)
    \/ VsRemoveExpired(p)
    \/ VsRemoveUsed(p)
    \/ IcCleanup(p)
    \/ IcMint(p)
    \/ IcInsert(p)
    \/ VcCleanup(p)
    \/ VcLookup(p)
    \/ VcCheck(p)
    \/ VcRemove(p)
    \/ MwBuffer(p)

SpecBootstrap == InitBootstrap /\ [][NextBootstrap]_vars

\* The runtime polls every accepted request until it is answered
SpecBootstrapFair == SpecBootstrap /\ \A p \in Procs : WF_vars(HandlerStep(p))

\* ---------------------------------------------------------- authorization
\* Path segments that begin with another segment's text without being it
LongerSegments == {<<"events_archive", "events">>, <<"verify-keys", "verify">>}

\* The text of segment begins with word
SegmentStartsWith(segment, word) == segment = word \/ <<segment, word>> \in LongerSegments

\* path.starts_with("/api/v1/events"): the text of the path begins with it
StartsWithEvents(path) ==
    /\ Len(path) >= 3
    /\ path[1] = "api" /\ path[2] = "v1" /\ SegmentStartsWith(path[3], "events")

\* path.starts_with("/api/v1/admin")
StartsWithAdmin(path) ==
    /\ Len(path) >= 3
    /\ path[1] = "api" /\ path[2] = "v1" /\ SegmentStartsWith(path[3], "admin")

\* path.contains("/verify"): some segment begins with "verify"
ContainsVerify(path) == \E i \in 1..Len(path) : SegmentStartsWith(path[i], "verify")

\* is_admin_relay
admin_relays == {"admin_relay_1", "admin_relay_2"}
is_admin_relay(relay_id) == relay_id \in admin_relays

\* has_permission: the first arm of the match that fits decides
has_permission(relay_id, method, path) ==
    IF method = "POST" /\ StartsWithEvents(path) THEN TRUE
    ELSE IF method = "GET" /\ ContainsVerify(path) THEN TRUE
    ELSE IF method \in {"GET", "POST", "PUT", "DELETE"} /\ StartsWithAdmin(path)
    THEN is_admin_relay(relay_id)
    ELSE FALSE

\* X-Validated-Relay-ID of a request: missing, a text, or bytes that
\* HeaderValue::to_str refuses
NoRelayHeader == [present |-> FALSE, text |-> FALSE, value |-> ""]
RelayHeaders ==
    {NoRelayHeader, [present |-> TRUE, text |-> FALSE, value |-> "opaque"]}
    \cup {[present |-> TRUE, text |-> TRUE, value |-> v] :
             v \in {"relay_1", "unknown", "admin_relay_1"}}

\* extract_validated_relay_id: headers.get(..).and_then(to_str().ok())
extract_validated_relay_id(header) ==
    IF header.present /\ header.text
    THEN [some |-> TRUE, relay_id |-> header.value]
    ELSE [some |-> FALSE, relay_id |-> ""]

\* Requests that reach the authorization layer
Methods == {"GET", "POST", "PUT", "DELETE", "PATCH"}
AuthorizationPaths ==
    {<<"api", "v1", "events">>, <<"api", "v1", "events", "package">>,
     <<"api", "v1", "events_archive">>,
     <<"api", "v1", "events", "hash123", "verify">>,
     <<"api", "v1", "admin", "relays">>, <<"api", "v1", "admin", "verify-keys">>,
     <<"api", "v1", "unknown">>, <<"health">>}

\* authorization_middleware
AuthorizationMiddleware(p) ==
    /\ req[p].pc = "authorization"
    /\ LET r == req[p]
           relay_id == extract_validated_relay_id(r.header)
       IN IF relay_id.some
          THEN IF has_permission(relay_id.relay_id, r.method, r.path)
               THEN Finish(p, [r EXCEPT !.forwarded = TRUE])
               ELSE Finish(p, [r EXCEPT !.status = 403])
          ELSE Finish(p, [r EXCEPT !.status = 401])
    /\ UNCHANGED <<now, challenges, certificates, powCfg, certCfg, libCfg, lockVars, nextChallengeId,
                   nextCertificateId, okCount, issuedFor, issued, generated, evVars>>

\* The worker that runs the authorization layer
AuthorizationWorkers == {p \in Procs : p = 1}

InitAuthorization ==
    /\ now = 0
    /\ challenges = EmptyMap
    /\ certificates = EmptyMap
    /\ default_difficulty = DefaultDifficulty
    /\ challenge_lifetime = MaxLifetime
    /\ certificate_lifetime = MaxCertLifetime
    /\ aud_unset_rejected = TRUE
    /\ held = Unlocked
    /\ nextChallengeId = 1
    /\ nextCertificateId = 1
    /\ \E method \in Methods, path \in AuthorizationPaths, header \in RelayHeaders :
         req = [p \in Procs |->
                  IF p \in AuthorizationWorkers
                  THEN [pc |-> "authorization", kind |-> "authorization",
                        method |-> method, path |-> path, header |-> header,
                        status |-> 0, forwarded |-> FALSE]
                  ELSE Idle]
    /\ okCount = EmptyMap
    /\ issuedFor = EmptyMap
    /\ issued = {}
    /\ generated = EmptyMap
    /\ bucket = {}
    /\ route = [p \in Procs |-> NoRoute]

NextAuthorization == \E p \in AuthorizationWorkers : AuthorizationMiddleware(p)

SpecAuthorization == InitAuthorization /\ [][NextAuthorization]_vars

\* ------------------------------------------------------- header fallback
\* Two relays whose ids are not legal header values hold a certificate each;
\* worker p serves the requests of the p-th of them
UnrepresentableRelays == <<"relay\n", "relay\r">>
RelayKeys == <<"pk_1", "pk_2">>

\* The certificate of the relay worker p serves: issued at the start of the
\* run, it lives one tick
CertificateOf(p) ==
    CertificateIssuedAt(p, UnrepresentableRelays[p], RelayKeys[p], MaxTime - 2, 1)

InitFallback ==
    /\ now = MaxTime - 2
    /\ challenges = EmptyMap
    /\ certificates = [p \in Procs |-> CertificateOf(p)]
    /\ default_difficulty = DefaultDifficulty
    /\ challenge_lifetime = 0
    /\ certificate_lifetime = 1
    /\ aud_unset_rejected = TRUE
    /\ held = Unlocked
    /\ nextChallengeId = 1
    /\ nextCertificateId = Cardinality(Procs) + 1
    /\ req = [p \in Procs |-> Idle]
    /\ okCount = EmptyMap
    /\ issuedFor = EmptyMap
    /\ issued = {IssuedEntry(CertificateOf(p)) : p \in Procs}
    /\ generated = EmptyMap
    /\ bucket = {}
    /\ route = [p \in Procs |-> NoRoute]

\* A protected request of the relay worker p serves arrives with its token
Fb_MwStart(p) ==
    /\ MwStart(p)
    /\ req'[p].pc = "vc_cleanup"
    /\ req'[p].path = <<"api", "v1", "events">>
    /\ req'[p].token = generate_certificate_token(CertificateOf(p))

NextFallback ==
    \/ Tick
    \/ \E p \in Procs :
        \/ Fb_MwStart(p)
        \/ VcCleanup(p)
        \/ VcLookup(p)
        \/ VcCheck(p)
        \/ VcRemove(p)
        \/ MwBufferFail(p)
        \/ MwBuffer(p)

SpecFallback == InitFallback /\ [][NextFallback]_vars

\* ------------------------------------------------- properties: PoW endpoints
\* The POST /api/v1/pow/verify requests that were answered 200 for challenge c
Answered200(c) ==
    {p \in Procs : /\ req[p].pc = "done"
                   /\ req[p].kind = "pow_verify"
                   /\ req[p].challenge_id = c
                   /\ req[p].status = 200}

\* C1: for every issued challenge, under any interleaving of concurrent
\* verify_solution calls carrying a valid solution, at most one call returns Ok.
\* (Refuted: two calls that both clone the challenge before either removes it
\* both return Ok.)
C1_AtMostOneOk == \A c \in DOMAIN okCount : okCount[c] <= 1

\* C2: once verify_solution has returned Ok for a challenge, the challenge is
\* not in the store, and every verify_solution started afterwards that names
\* the same challenge_id, whatever nonce and hash it carries, fails with
\* "challenge not found"; its POST /api/v1/pow/verify is answered 401.
C2_ConsumedIsNotFound ==
    /\ \A c \in DOMAIN okCount : okCount[c] > 0 => c \notin DOMAIN challenges
    /\ \A p \in Procs :
         (req[p].kind = "pow_verify" /\ req[p].afterOk) =>
            \/ req[p].pc = "vs_get"
            \/ /\ req[p].pc = "done"
               /\ req[p].vs_result = "not_found"
               /\ req[p].status = 401

\* A submission made after a successful one for the same challenge was answered
C2_Witness ==
    \E p \in Procs :
        /\ req[p].pc = "done"
        /\ req[p].kind = "pow_verify"
        /\ req[p].afterOk
        /\ okCount[req[p].challenge_id] > 0

\* C3: of the POST /api/v1/pow/verify requests naming one challenge, at most
\* one is answered 200 and at most one certificate is issued and stored.
\* (Refuted as a consequence of C1: both racing requests pass verify_solution
\* and each goes on to issue_certificate.)
C3_AtMostOneCertificate ==
    \A c \in DOMAIN issuedFor :
        /\ issuedFor[c] <= 1
        /\ Cardinality(Answered200(c)) <= 1


\* ------------------------------------------- properties: challenge expiry
\* Worker p takes a step of its own request
Steps(p) == req'[p] # req[p]

\* The steps of verify_solution and of issue_certificate
VerifyPcs == {"vs_get", "vs_check", "vs_remove_expired", "vs_remove_used"}
IssuePcs == {"ic_cleanup", "ic_mint", "ic_insert"}

\* Worker p is serving POST /api/v1/pow/verify
InPowVerify(p) == req[p].kind = "pow_verify" /\ req[p].pc \in VerifyPcs \cup IssuePcs

ValidatePcs == {"vc_cleanup", "vc_lookup", "vc_check", "vc_remove"}

\* Worker p is inside validate_certificate(e.token), e an issued certificate
Validating(p, e) ==
    /\ req[p].pc \in ValidatePcs
    /\ req[p].token = e.token

\* C4: for every token T returned by issue_certificate for (relay_id,
\* public_key), no step of a validate_certificate(T) call taken before T's
\* expiry fails, and the call returns exactly that relay_id and public_key,
\* read from the stored record.
C4_ValidBeforeExpiry ==
    [][\A p \in Procs : \A e \in issued :
          (Validating(p, e) /\ now < e.expires_at) =>
             /\ req'[p].pc \in {"vc_cleanup", "vc_lookup", "vc_check", "mw_buffer"}
             /\ req'[p].pc = "mw_buffer" =>
                   /\ e.certificate_id \in DOMAIN certificates
                   /\ req'[p].validation =
                        [relay_id |-> certificates[e.certificate_id].relay_id,
                         public_key |-> certificates[e.certificate_id].public_key,
                         expires_at |-> certificates[e.certificate_id].expires_at]
                   /\ req'[p].validation.relay_id = e.relay_id
                   /\ req'[p].validation.public_key = e.public_key]_vars

\* validate_certificate has returned Ok for an issued token before its expiry
C4_Witness ==
    \E p \in Procs : \E e \in issued :
        /\ req[p].pc = "mw_buffer"
        /\ req[p].token = e.token
        /\ req[p].validation.relay_id = e.relay_id
        /\ req[p].validation.public_key = e.public_key
        /\ now < e.expires_at

\* C5: for every issued token T, a validate_certificate(T) call made when
\* now >= T's expiry fails (the middleware answers 401), the store holds no
\* entry for T's certificate_id when the error is returned, and none later.
C5_ExpiredFailsAndIsRemoved ==
    [][/\ \A p \in Procs : \A e \in issued :
            (Validating(p, e) /\ req[p].expiredAtStart) =>
               /\ req'[p].pc # "mw_buffer"
               /\ req'[p].pc = "done" =>
                     /\ req'[p].status = 401
                     /\ ~req'[p].forwarded
                     /\ e.certificate_id \notin DOMAIN certificates'
       /\ \A e \in issued :
            e.certificate_id \notin DOMAIN certificates =>
               e.certificate_id \notin DOMAIN certificates']_vars

\* A validate_certificate call made at or after the token's expiry has failed
\* and the expired certificate is not in the store
C5_Witness ==
    \E p \in Procs : \E e \in issued :
        /\ req[p].pc = "done"
        /\ req[p].kind = "protected"
        /\ req[p].expiredAtStart
        /\ req[p].vc_result \in {"not_found", "expired"}
        /\ now >= e.expires_at
        /\ e.certificate_id \notin DOMAIN certificates

\* C6: validate_certificate returns Ok only for a token string that
\* issue_certificate returned.  (Refuted: the token is not checked against
\* the server key, so a token a client assembles around the id of a stored
\* certificate validates.)
C6_OnlyIssuedTokensValidate ==
    \A p \in Procs :
        req[p].pc = "mw_buffer" => req[p].token \in {e.token : e \in issued}

\* C15: when the certificate lifetime is 0 or negative, every
\* validate_certificate call on a token the service issued fails, and fails
\* with the "expired" error.  (Refuted on the error: the sweep at the start of
\* validate_certificate drops the certificate, so the lookup answers
\* "Certificate not found".)
C15_NonPositiveLifetimeFailsExpired ==
    [][\A p \in Procs : \A e \in issued :
          (certificate_lifetime <= 0 /\ Validating(p, e) /\ req'[p].pc = "done") =>
             /\ req'[p].status = 401
             /\ req'[p].vc_result = "expired"]_vars


\* ------------------------------------------------- properties: middleware
\* The JWS was produced with the private key of public_key and its payload is
\* the payload that was signed
VerifiesUnder(jwt, public_key) ==
    /\ jwt.signer = public_key
    /\ jwt.payload = jwt.signed

\* Worker p finishes the body step of a request whose body is an envelope
EnvelopeStep(p) ==
    /\ req[p].pc = "mw_buffer"
    /\ req'[p].pc = "done"
    /\ ParsesAsEnvelope(req'[p].body)

C8_EnvelopeNeedsValidJws ==
    [][\A p \in Procs :
          EnvelopeStep(p) =>
             LET verifies == VerifiesUnder(req'[p].body.jwt,
                                           req[p].validation.public_key)
             IN /\ req'[p].forwarded => verifies
                /\ ~verifies => (req'[p].status = 401 /\ ~req'[p].forwarded)]_vars

\* An envelope whose payload was altered after signing was answered 401
C8_Witness ==
    \E p \in Procs :
        /\ req[p].pc = "done"
        /\ req[p].kind = "protected"
        /\ ParsesAsEnvelope(req[p].body)
        /\ req[p].body.jwt.payload # req[p].body.jwt.signed
        /\ req[p].status = 401
        /\ ~req[p].forwarded

\* The public paths as the allow-list is documented
DocumentedPublicPaths ==
    {<<"health">>, <<"docs">>, <<"openapi-json">>, <<"openapi-yaml">>,
     <<"api", "v1", "pow", "challenge">>, <<"api", "v1", "pow", "verify">>}

\* path equals a documented public path or starts with one followed by '/'
IsPublicPath(path) ==
    \E public_path \in DocumentedPublicPaths :
        /\ Len(path) >= Len(public_path)
        /\ \A i \in 1..Len(public_path) : path[i] = public_path[i]

\* C9: on a non-public path the middleware answers 401 and does not forward
\* the request when the Authorization header is absent or is not a bearer
\* header, and when validate_certificate fails for the token, whether the
\* token is invalid, expired or names no stored certificate.
C9_Unauthorized401 ==
    \A p \in Procs :
        (req[p].pc = "done" /\ req[p].kind = "protected") =>
           /\ (~IsPublicPath(req[p].path) /\ req[p].auth \in {"absent", "not_bearer"})
                 => (req[p].status = 401 /\ ~req[p].forwarded)
           /\ req[p].vc_result \notin {"none", "ok"}
                 => (req[p].status = 401 /\ ~req[p].forwarded)
           /\ req[p].forwarded
                 => (IsPublicPath(req[p].path) \/ req[p].vc_result = "ok")

\* A request whose token names no stored certificate was answered 401
C9_Witness ==
    \E p \in Procs :
        /\ req[p].pc = "done"
        /\ req[p].kind = "protected"
        /\ req[p].vc_result = "not_found"
        /\ req[p].status = 401
        /\ \E q \in Procs :
              /\ req[q].pc = "done"
              /\ req[q].kind = "protected"
              /\ req[q].auth = "absent"
              /\ req[q].path = <<"api", "v1", "events">>


\* Path segments from which the paths of the allow-list check are built
Segments ==
    {"health", "healthz", "docs", "openapi-json", "openapi-yaml", "api", "v1",
     "pow", "challenge", "verify", "events", "package", "live", ""}

\* Paths on which the allow-list is compared with its documentation: every
\* path of one or two segments, every prefix of a public path, every public
\* path extended by one segment, and the event endpoints
PathUniverse ==
    {<<a>> : a \in Segments}
    \cup {<<a, b>> : a \in Segments, b \in Segments}
    \cup UNION {{SubSeq(pp, 1, k) : k \in 1..Len(pp)} : pp \in DocumentedPublicPaths}
    \cup {Append(pp, a) : pp \in DocumentedPublicPaths, a \in Segments}
    \cup {<<"api", "v1", "events">>, <<"api", "v1", "events", "package">>,
          <<"api", "v1", "pow", "challenges">>}

\* should_skip_validation accepts exactly the documented public paths
AllowListAsDocumented ==
    \A path \in PathUniverse : should_skip_validation(path) <=> IsPublicPath(path)

\* Worker p takes a request into the middleware and the middleware lets it
\* through or answers it at once
EntryStep(p) ==
    /\ Free(p)
    /\ req'[p] # req[p]
    /\ req'[p].kind = "protected"

\* C10: a request whose path equals /health, /docs, /openapi-json,
\* /openapi-yaml, /api/v1/pow/challenge or /api/v1/pow/verify, or starts with
\* one of them followed by '/', is passed downstream unchanged (no header
\* added, body not read), without a token check and with both stores
\* untouched; a request on any other path is answered 401 at once or goes
\* into validate_certificate.
C10_PublicPathsPassThrough ==
    [][/\ AllowListAsDocumented
       /\ \A p \in Procs :
            EntryStep(p) =>
               IF IsPublicPath(req'[p].path)
               THEN /\ req'[p].pc = "done"
                    /\ req'[p].forwarded
                    /\ req'[p].vc_result = "none"
                    /\ req'[p].fwd_relay_header = req'[p].inbound_relay_header
                    /\ req'[p].fwd_body = UnreadBody
                    /\ req'[p].fwd_package = "none"
                    /\ certificates' = certificates
                    /\ challenges' = challenges
               ELSE \/ req'[p].pc = "vc_cleanup"
                    \/ /\ req'[p].pc = "done"
                       /\ req'[p].status = 401
                       /\ ~req'[p].forwarded]_vars

\* A request on /health/live went through with a non-bearer Authorization
\* header while a request on /api/v1/events is inside validate_certificate
C10_Witness ==
    \E p \in Procs : \E q \in Procs :
        /\ req[p].pc = "done"
        /\ req[p].kind = "protected"
        /\ req[p].path = <<"health", "live">>
        /\ req[p].auth = "not_bearer"
        /\ req[p].forwarded
        /\ req[q].pc = "vc_cleanup"
        /\ req[q].path = <<"api", "v1", "events">>

\* C11: a verify_solution call that observes now > expires_at for the named
\* challenge fails with the "expired" error, not "not found", whatever hash
\* and nonce the solution carries, and the challenge is absent from the store
\* when the call returns.
C11_ExpiredObservedIsExpiredError ==
    [][\A p \in Procs :
          /\ (req[p].pc = "vs_check" /\ Steps(p) /\ now > req[p].challenge.expires_at)
                => req'[p].pc = "vs_remove_expired"
          /\ (req[p].pc = "vs_remove_expired" /\ Steps(p))
                => /\ req'[p].pc = "done"
                   /\ req'[p].vs_result = "expired"
                   /\ req'[p].status = 401
                   /\ req[p].solution.challenge_id \notin DOMAIN challenges']_vars

\* A verify_solution call has returned the "expired" error and the challenge
\* it named is gone
C11_Witness ==
    \E p \in Procs :
        /\ req[p].pc = "done"
        /\ req[p].kind = "pow_verify"
        /\ req[p].vs_result = "expired"
        /\ req[p].challenge_id \notin DOMAIN challenges

\* The challenge with id c is past its expiry, by the test verify_solution uses
ChallengeExpired(c) == now > generated[c].expires_at

\* C12: in every reachable state a challenge is in the store if and only if
\* it has been issued, no verify_solution has consumed it and it has not yet
\* expired.  (Refuted: nothing removes a challenge when its lifetime ends; it
\* stays in the store until a verify_solution call names it.)
C12_PresentIffLive ==
    \A c \in DOMAIN generated :
        c \in DOMAIN challenges <=> (okCount[c] = 0 /\ ~ChallengeExpired(c))

\* --------------------------------------------- properties: difficulty check
\* The hex nibbles of a byte sequence, high nibble first
RECURSIVE Nibbles(_)
Nibbles(bytes) ==
    IF bytes = <<>> THEN <<>>
    ELSE <<Head(bytes) \div 16, Head(bytes) % 16>> \o Nibbles(Tail(bytes))

\* The number of leading zeros of a sequence
RECURSIVE LeadingZeros(_)
LeadingZeros(seq) ==
    IF seq = <<>> \/ Head(seq) # 0 THEN 0 ELSE 1 + LeadingZeros(Tail(seq))

\* The natural count of a hash: its leading zero hex nibbles
NaturalCount(hash) == LeadingZeros(Nibbles(hash.bytes))

\* A difficulty check on a hash that is valid base64 has been answered
Checked(p) ==
    /\ req[p].pc = "done"
    /\ req[p].kind = "difficulty_check"
    /\ ~req[p].result.err

\* C13: the difficulty check counts the leading zero hex nibbles of the raw
\* hash bytes and passes iff the count is at least the difficulty; a hash
\* whose count is n passes at difficulty n and fails at n + 1, and difficulty
\* 0 accepts every hash.
C13_DifficultyCountsLeadingZeroNibbles ==
    \A p \in Procs :
        Checked(p) =>
           LET n == NaturalCount(req[p].hash)
           IN /\ zero_count(req[p].hash.bytes) = n
              /\ req[p].result.meets <=> (n >= req[p].difficulty)
              /\ (req[p].vs_result = "ok") <=> (n >= req[p].difficulty)
              /\ meets_difficulty(req[p].hash, n).meets
              /\ ~meets_difficulty(req[p].hash, n + 1).meets
              /\ req[p].difficulty = 0 => req[p].result.meets

\* A hash of count 3 (bytes 00 0f) was checked at difficulty 3 and passed, and
\* one was checked at difficulty 4 and failed
C13_Witness ==
    \E p \in Procs :
        /\ Checked(p)
        /\ req[p].hash.bytes = <<0, 15>>
        /\ req[p].difficulty = 3
        /\ req[p].result.meets

\* C14 as stated: a solution accepted at difficulty d is rejected at d + 1.
C14_AcceptedAtDRejectedAtNext ==
    \A p \in Procs :
        (Checked(p) /\ req[p].result.meets) =>
           ~meets_difficulty(req[p].hash, req[p].difficulty + 1).meets

\* C14 amended: acceptance is downward closed in the difficulty (a solution
\* accepted at d + 1 is accepted at d, one rejected at d is rejected at
\* d + 1), and a solution accepted at d is rejected at d + 1 exactly when its
\* natural count is d.
C14_AcceptanceDownwardClosed ==
    \A p \in Procs :
        Checked(p) =>
           LET next == meets_difficulty(req[p].hash, req[p].difficulty + 1).meets
           IN /\ next => req[p].result.meets
              /\ ~req[p].result.meets => ~next
              /\ req[p].result.meets =>
                    (~next <=> NaturalCount(req[p].hash) = req[p].difficulty)

\* A hash of count 4 (bytes 00 00) was accepted at difficulty 3, where it
\* would also be accepted at difficulty 4
C14_Witness ==
    \E p \in Procs :
        /\ Checked(p)
        /\ req[p].hash.bytes = <<0, 0>>
        /\ req[p].difficulty = 3
        /\ req[p].result.meets
        /\ meets_difficulty(req[p].hash, 4).meets

\* ------------------------------------------------ properties: request body
\* Worker p's protected request was forwarded after its certificate validated
ForwardedProtected(p) ==
    /\ req[p].pc = "done"
    /\ req[p].kind = "protected"
    /\ req[p].forwarded
    /\ req[p].vc_result = "ok"

\* C20: on every forwarded protected request the middleware has read the body
\* the client sent (once, in the body step) and the request that goes
\* downstream carries exactly those bytes, whether or not the body parsed as
\* an envelope.
C20_ForwardedBodyIdentical ==
    \A p \in Procs :
        ForwardedProtected(p) =>
           /\ req[p].body \in Bodies
           /\ req[p].fwd_body = req[p].body

\* One request was forwarded on the envelope branch and one on the
\* non-envelope branch
C20_Witness ==
    \E p, q \in Procs :
        /\ ForwardedProtected(p) /\ ParsesAsEnvelope(req[p].body)
        /\ req[p].fwd_body = req[p].body
        /\ ForwardedProtected(q) /\ ~ParsesAsEnvelope(req[q].body)
        /\ req[q].fwd_body = req[q].body

\* ------------------------------------------------ properties: events routes
\* Worker p's request to GET /api/v1/events/{hash}/verify has been answered,
\* by the middleware or by the handler
VerifyAnswered(p) ==
    /\ route[p].kind = "verify_event_hash"
    /\ req[p].pc = "done"
    /\ ~Pending(p)

\* The handler, not the middleware, answered worker p's request
ByHandler(p) == req[p].kind = "events"

\* C17 as stated: the verify route answers 400 whenever the hash is not
\* exactly 64 characters long, authenticated or not, and 200 with the
\* storage layer's exists for a hash of 64 characters.
C17_BadLengthIs400RegardlessOfAuth ==
    \A p \in Procs :
        VerifyAnswered(p) =>
           /\ Len(route[p].hash) # 64 => req[p].status = 400
           /\ Len(route[p].hash) = 64 => req[p].status = 200

\* C17 amended: on every request the certificate middleware forwards, the
\* verify route answers 400 when the hash is not exactly 64 characters long
\* and 200 with exists as the storage layer reports when it is; only requests
\* with a bearer token are forwarded, and a request the middleware does not
\* forward is answered 401 (400 when its body cannot be read) whatever the
\* hash.
C17_BadLengthIs400WhenForwarded ==
    \A p \in Procs :
        VerifyAnswered(p) =>
           IF ByHandler(p)
           THEN /\ route[p].auth = "bearer"
                /\ Len(route[p].hash) # 64 => req[p].status = 400
                /\ Len(route[p].hash) = 64 =>
                      /\ req[p].status = 200
                      /\ req[p].exists = event_exists(route[p].hash)
           ELSE /\ req[p].status \in {400, 401}
                /\ route[p].auth # "bearer" => req[p].status = 401

\* An authenticated request with a 63-character hash was answered 400 by the
\* handler
C17_Witness ==
    \E p \in Procs :
        /\ VerifyAnswered(p)
        /\ ByHandler(p)
        /\ Len(route[p].hash) = 63
        /\ req[p].status = 400

\* The lowercase hexadecimal characters
LowerHexChars == {"0", "1", "2", "3", "4", "5", "6", "7", "8", "9",
                  "a", "b", "c", "d", "e", "f"}

\* The text is 64 lowercase hexadecimal characters
IsLowerHex64(text) ==
    /\ Len(text) = 64
    /\ \A k \in 1..Len(text) : text[k] \in LowerHexChars

\* POST /api/v1/events answered worker p with the hash of the package
HashAnswered(p) ==
    /\ route[p].kind = "receive_event"
    /\ req[p].pc = "done"
    /\ ByHandler(p)
    /\ req[p].status = 200

HasEventKeyForm(key, hash) ==
    /\ Len(key) = 4
    /\ key[1] = "events"
    /\ key[2].format = "%Y"
    /\ key[3].format = "%m"
    /\ key[4].stem = hash

\* C19: every object the server stores for an event has a key of the form
\* events/<YYYY>/<MM>/<event_hash>.<ext> with event_hash the canonical hash of
\* the package, and the existence check for that hash looks under the key of
\* the stored object.  (Refuted: store_event, upload_zip_file and
\* event_exists build three different keys from two different hashes.)
C19_KeysUseCanonicalHash ==
    \A o \in Stored :
        /\ HasEventKeyForm(o.key, generate_event_hash(o.package))
        /\ event_exists(generate_event_hash(o.package))

\* ------------------------------------------- properties: relay id handed on
\* receive_event called process_event for worker p's request
ProcessEventCalled(p) ==
    /\ route[p].kind = "receive_event"
    /\ req[p].pc = "done"
    /\ ByHandler(p)
    /\ "relay_id" \in DOMAIN req[p]

\* C21: the relay_id the events handler hands to process_event is the
\* relay_id the middleware validated for the request and put into
\* X-Validated-Relay-ID, never a fixed constant.  (Refuted: receive_event
\* passes the literal "authenticated_relay_id".)
C21_HandlerUsesValidatedRelayId ==
    \A p \in Procs :
        ProcessEventCalled(p) =>
           /\ req[p].relay_id = req[p].fwd_relay_header
           /\ \E e \in issued : req[p].relay_id = ValidatedRelayHeader(e.relay_id)

\* ------------------------------------------ properties: challenge generation
\* Worker p returns from generate_challenge in this step
Generates(p) ==
    /\ Steps(p)
    /\ req'[p].pc = "done"
    /\ req'[p].kind = "pow_challenge"

JwsAccepted(p) ==
    /\ req[p].pc = "done"
    /\ req[p].kind = "jws"
    /\ req[p].result.ok

\* C23: verify_event_jws returns an EventPackage only if the key is an EC
\* P-256 key whose x and y decode to 32 bytes each, the signature verifies
\* under it, exp is present and in the future, and aud is "event_server".
\* (Refuted: no audience is configured, so aud is never required to be
\* "event_server".)
C23_AcceptedOnlyIfEveryCheckPasses ==
    \A p \in Procs :
        JwsAccepted(p) =>
           LET jwk == ParseJwk(req[p].public_key)
               jwt == req[p].jwt
           IN /\ jwk.json /\ jwk.kty = "EC" /\ jwk.crv = "P-256"
              /\ jwk.x_decodes /\ jwk.x_len = 32
              /\ jwk.y_decodes /\ jwk.y_len = 32
              /\ VerifiesUnder(jwt, req[p].public_key)
              /\ jwt.exp.present /\ jwt.exp.at > req[p].at
              /\ jwt.aud = "event_server"

\* ------------------------------------------- properties: order of the steps
\* The place of a step in the middleware's sequence
Rank(pc) ==
    CASE pc = "vc_cleanup" -> 1
      [] pc = "vc_lookup" -> 2
      [] pc = "vc_check" -> 3
      [] pc = "vc_remove" -> 4
      [] pc = "mw_buffer" -> 5
      [] OTHER -> 6

\* Worker p takes a step of a protected request that has passed the entry
InMiddleware(p) ==
    /\ Steps(p)
    /\ req[p].kind = "protected"
    /\ req[p].pc \in ValidatePcs \cup {"mw_buffer"}

NonEnvelopeStep(p) ==
    /\ req[p].pc = "mw_buffer"
    /\ req'[p].pc = "done"
    /\ req'[p].body \in Bodies
    /\ ~ParsesAsEnvelope(req'[p].body)

WrongHash(r) ==
    compute_hash(r.challenge.challenge_data, r.solution.nonce) # r.solution.hash

\* The hash computed for the call in r does not meet the challenge's difficulty
FailsDifficulty(r) ==
    ~meets_difficulty(compute_hash(r.challenge.challenge_data, r.solution.nonce),
                      r.challenge.difficulty).meets

\* Worker p's verify_solution call ends with error e
FailsWith(p, e) == req'[p].pc = "done" /\ req'[p].vs_result = e

\* C26: verify_solution checks lookup, expiry, hash equality and difficulty in
\* that order and the first failing check names the error: an unknown id is
\* "not found" whatever else is wrong, an expired challenge is "expired" even
\* with a wrong hash, a live challenge with a wrong hash is "invalid hash"
\* even if the difficulty test would fail.
C26_FirstFailingCheckNamesError ==
    [][\A p \in Procs :
          (Steps(p) /\ req[p].kind = "pow_verify") =>
             /\ req[p].pc = "vs_get" =>
                   IF req[p].solution.challenge_id \notin DOMAIN challenges
                   THEN FailsWith(p, "not_found")
                   ELSE req'[p].pc = "vs_check"
             /\ req[p].pc = "vs_check" =>
                   IF now > req[p].challenge.expires_at
                   THEN req'[p].pc = "vs_remove_expired"
                   ELSE IF WrongHash(req[p])
                   THEN FailsWith(p, "invalid_hash")
                   ELSE IF FailsDifficulty(req[p])
                   THEN FailsWith(p, "difficulty")
                   ELSE req'[p].pc = "vs_remove_used"
             /\ req[p].pc = "vs_remove_expired" => FailsWith(p, "expired")]_vars

\* A call failed with "invalid hash" on a challenge that is still stored and
\* live, while another call, with a wrong hash that also fails the difficulty,
\* is at its checks; a third outcome, "not found", needs no second worker
C26_Witness ==
    \E p, q \in Procs :
        /\ req[p].pc = "done" /\ req[p].kind = "pow_verify"
        /\ req[p].vs_result = "invalid_hash"
        /\ req[p].challenge_id \in DOMAIN challenges
        /\ ~ChallengeExpired(req[p].challenge_id)
        /\ req[q].pc = "vs_check"
        /\ req[q].solution.challenge_id = req[p].challenge_id
        /\ WrongHash(req[q]) /\ FailsDifficulty(req[q])

\* ------------------------------------- properties: failing calls and stores
\* This step changes neither store
StoresUnchanged == challenges' = challenges /\ certificates' = certificates

\* Worker p's validate_certificate call can only fail, and not on expiry: no
\* certificate id can be read from its token
MalformedTokenCall(p) ==
    /\ req[p].kind = "protected"
    /\ req[p].pc \in ValidatePcs
    /\ extract_certificate_id_from_token(req[p].token).err # "none"

\* C27: a verify_solution or validate_certificate call that fails for another
\* reason than observed expiry leaves both stores as they were: no step of
\* such a call changes a store.  (Refuted: validate_certificate runs
\* cleanup_expired_certificates before it looks at the token, so a call with
\* a malformed token removes the expired certificates of other relays.)
C27_FailingCallsLeaveStores ==
    [][\A p \in Procs :
          Steps(p) =>
             \* verify_solution: not found, invalid hash, difficulty
             /\ (req[p].kind = "pow_verify" /\ req[p].pc \in {"vs_get", "vs_check"}
                   /\ req'[p].pc = "done") => StoresUnchanged
             \* validate_certificate: the step that returns the error
             /\ (req[p].kind = "protected" /\ req[p].pc \in {"vc_lookup", "vc_check"}
                   /\ req'[p].pc = "done") => StoresUnchanged
             \* validate_certificate: every step of a call bound to fail
             /\ MalformedTokenCall(p) => StoresUnchanged]_vars

\* ------------------------------------ properties: expiry against consumption
\* A verify_solution call naming challenge c has returned the expired error
ReturnedExpired(c) ==
    \E p \in Procs :
        /\ req[p].pc = "done"
        /\ req[p].kind = "pow_verify"
        /\ req[p].vs_result = "expired"
        /\ req[p].challenge_id = c

\* C28: a challenge that expires while verify_solution calls are in flight is
\* consumed by a call returning Ok or removed by a call returning the expired
\* error, never both.  (Refuted: the expiry test and the removals are taken
\* under separate locks, so a call that passed the test before the expiry
\* returns Ok after another call has returned the expired error.)
C28_ConsumedOrExpiredNeverBoth ==
    \A c \in DOMAIN generated : ~(okCount[c] > 0 /\ ReturnedExpired(c))

\* --------------------------------------------------------- properties: locks
\* The steps of worker p other than the drop of a guard
WorkSteps(p) ==
    \/ GenerateLock(p)
    \/ LockAcquire(p)
    \/ Lk_GenerateChallenge(p)
    \/ Lk_PowVerifyStart(p)
    \/ Lk_MwStart(p)
    \/ Lk_VsGet(p)
    \/ Lk_VsCheck(p)
    \/ Lk_VsRemoveExpired(p)
    \/ Lk_VsRemoveUsed(p)
    \/ Lk_IcCleanup(p)
    \/ Lk_IcMint(p)
    \/ Lk_IcInsert(p)
    \/ Lk_VcCleanup(p)
    \/ Lk_VcLookup(p)
    \/ Lk_VcCheck(p)
    \/ Lk_VcRemove(p)
    \/ Lk_MwBuffer(p)
    \/ Lk_MwBufferFail(p)

\* The steps of worker p
WorkerStep(p) == LockRelease(p) \/ WorkSteps(p)

\* Worker p waits for a Mutex another worker holds
WaitsFor(p, q) ==
    /\ q # p
    /\ LockOf(req[p]) # "none"
    /\ held[LockOf(req[p])].owner = q

\* C29: lock order is flat.  No worker holds the locks of both stores; a
\* worker that holds a lock waits for nothing, so no lock is acquired while
\* another is held; a guard is dropped at the end of its block, before the
\* operation does anything else or returns; and every request in progress can
\* take a step or waits for a lock whose holder can: no deadlock.
C29_FlatLocksNoDeadlock ==
    /\ \A p \in Procs : Cardinality(HeldBy(p)) <= 1
    /\ \A l \in Stores :
          held[l].owner # NoWorker => ENABLED WorkerStep(held[l].owner)
    /\ \A p \in Procs :
          (HeldBy(p) # {} /\ \A l \in HeldBy(p) : ~InSection(p, l)) =>
             ENABLED LockRelease(p) /\ ~ENABLED WorkSteps(p)
    /\ \A p \in Procs :
          ~Free(p) =>
             \/ ENABLED WorkerStep(p)
             \/ \E q \in Procs : WaitsFor(p, q) /\ ENABLED WorkerStep(q)

\* The PoW handler, which uses both stores, holds the certificates lock while
\* the other worker waits for it, and the challenges lock is free
C29_Witness ==
    \E p, q \in Procs :
        /\ req[p].kind = "pow_verify"
        /\ InSection(p, "certificates")
        /\ WaitsFor(q, p)
        /\ ~ENABLED WorkerStep(q)
        /\ held["challenges"].owner = NoWorker

\* ------------------------------------------- properties: failed buffering
\* Worker p's request ends because its body could not be read
BufferFails(p) ==
    /\ Steps(p)
    /\ req[p].pc = "mw_buffer"
    /\ req'[p].pc = "done"
    /\ req'[p].body = NoBody

\* C30: when body buffering of a protected request fails the middleware
\* answers 400 without calling downstream and the request has not changed
\* the challenge store or the certificate store at any point.  (Refuted: the
\* body is read after validate_certificate, whose cleanup has already
\* removed the expired certificates from the store.)
C30_FailedBufferingLeavesStores ==
    [][\A p \in Procs :
          BufferFails(p) =>
             /\ req'[p].status = 400
             /\ ~req'[p].forwarded
             /\ StoresUnchanged
             /\ ~req[p].cleaned]_vars

\* ------------------------------------------------- properties: store sweep
\* The records of a store whose expires_at is later than t
Unexpired(certs, t) ==
    [k \in {i \in DOMAIN certs : certs[i].expires_at > t} |-> certs[k]]

\* C31: every issue_certificate and validate_certificate call begins, before
\* any lookup or insert, by removing from the certificate store every record
\* whose expires_at is not later than now, and removes no record whose
\* expires_at is later than now.
C31_CallsBeginWithSweep ==
    [][\A p \in Procs :
          Steps(p) =>
             \* the call is entered at its sweep
             /\ (Free(p) /\ req'[p].kind = "issue") => req'[p].pc = "ic_cleanup"
             /\ (Free(p) /\ req'[p].kind = "protected" /\ req'[p].pc # "done") =>
                   req'[p].pc = "vc_cleanup"
             \* the sweep keeps exactly the unexpired records
             /\ req[p].pc \in {"ic_cleanup", "vc_cleanup"} =>
                   certificates' = Unexpired(certificates, now)
             \* the lookup and the insert come after it
             /\ req'[p].pc = "vc_lookup" => req[p].pc = "vc_cleanup"
             /\ req'[p].pc = "ic_mint" => req[p].pc = "ic_cleanup"
             /\ req'[p].pc = "ic_insert" => req[p].pc = "ic_mint"]_vars

\* An issue_certificate call has swept the expired certificate out of the
\* store and kept the live one, and no validate_certificate call was made
C31_Witness ==
    \E p \in Procs :
        /\ req[p].pc = "ic_mint"
        /\ \A q \in Procs : req[q].kind \in {"none", "issue"}
        /\ \E e \in issued : e.expires_at <= now /\ e.certificate_id \notin DOMAIN certificates
        /\ \E e \in issued : e.expires_at > now /\ e.certificate_id \in DOMAIN certificates

\* ------------------------------------------ properties: inbound relay header
\* C32: no forwarded request carries an X-Validated-Relay-ID value chosen by
\* the client: the header is absent or equals the relay_id of the certificate
\* validated for the request.  (Refuted: the public-path branch forwards the
\* request with the headers it came with.)
C32_NoClientChosenRelayHeader ==
    \A p \in Procs :
        (req[p].pc = "done" /\ req[p].kind = "protected" /\ req[p].forwarded) =>
           \/ req[p].fwd_relay_header = "absent"
           \/ /\ req[p].vc_result = "ok"
              /\ \E e \in issued : req[p].fwd_relay_header = e.relay_id

\* ------------------------------------------------- properties: event hash
\* The fields create_hash_input reads are the same in both packages
AgreeOnHashedFields(a, b) ==
    /\ a.id = b.id
    /\ a.annotations = b.annotations
    /\ a.media.some = b.media.some
    /\ a.media.some =>
          /\ a.media.media_type = b.media.media_type
          /\ a.media.size = b.media.size
          /\ a.media.name = b.media.name
    /\ a.metadata.created_at = b.metadata.created_at

\* The request has been answered with the hash of its package
Hashed(p) == req[p].pc = "done" /\ req[p].kind = "event_hash"

PostedGoodSolution(p) ==
    /\ req[p].pc = "vs_get"
    /\ LET s == req[p].solution
       IN /\ s.challenge_id \in DOMAIN challenges
          /\ now <= challenges[s.challenge_id].expires_at
          /\ s.hash = compute_hash(challenges[s.challenge_id].challenge_data, s.nonce)
          /\ meets_difficulty(s.hash, challenges[s.challenge_id].difficulty).meets

\* Another worker is serving a submission for the challenge worker p serves
CompetingSubmission(p) ==
    \E q \in Procs \ {p} :
        /\ req[q].kind = "pow_verify" /\ req[q].pc \in VerifyPcs
        /\ req[p].kind = "pow_verify" /\ req[p].pc \in VerifyPcs
        /\ req[q].solution.challenge_id = req[p].solution.challenge_id

\* The challenge worker p serves has expired
ExpiredBeforeAnswer(p) ==
    /\ req[p].kind = "pow_verify" /\ req[p].pc \in VerifyPcs
    /\ req[p].solution.challenge_id \in DOMAIN generated
    /\ now > generated[req[p].solution.challenge_id].expires_at

\* Worker p has answered POST /api/v1/pow/verify with 200 and an issued token
AnsweredWithToken(p) ==
    /\ req[p].pc = "done" /\ req[p].kind = "pow_verify"
    /\ req[p].status = 200
    /\ \E e \in issued : e.token = req[p].token

\* Worker p is about to validate the token of the issued certificate e
Presented(p, e) == req[p].pc = "vc_cleanup" /\ req[p].token = e.token

\* validate_certificate has returned Ok for the token of e to worker p
Validated(p, e) ==
    /\ req[p].pc = "mw_buffer" /\ req[p].token = e.token
    /\ req[p].validation.relay_id = e.relay_id

\* The certificates the bootstrap can issue
BootstrapCertificates ==
    {[token |-> generate_certificate_token(
                    CertificateIssuedAt(id, c.relay_id, c.public_key, t, 1)),
      certificate_id |-> id, relay_id |-> c.relay_id, public_key |-> c.public_key,
      expires_at |-> t + 1] :
        id \in 1..MaxCerts, c \in PowClients, t \in (MaxTime - 2)..MaxTime}

\* C34: a good solution posted for an unexpired challenge is eventually
\* answered 200 with a token, unless the challenge expires or a competing
\* submission for it is served first; and every presentation of an issued
\* token is eventually validated, unless its certificate has expired.
C34_BootstrapProgress ==
    /\ \A p \in Procs :
          PostedGoodSolution(p) ~>
             (AnsweredWithToken(p) \/ CompetingSubmission(p) \/ ExpiredBeforeAnswer(p))
    /\ \A p \in Procs : \A e \in BootstrapCertificates :
          (e \in issued /\ Presented(p, e) /\ now < e.expires_at) ~>
             (Validated(p, e) \/ now >= e.expires_at)

C34_Witness ==
    \E p \in BootstrapClients : \E e \in issued :
        /\ Validated(p, e)
        /\ now < e.expires_at
        /\ \E id \in DOMAIN issuedFor : issuedFor[id] = 1 /\ okCount[id] = 1

\* ---------------------------------------------- properties: authorization
\* Worker p has answered in the authorization layer
Authorized(p) == req[p].pc = "done" /\ req[p].kind = "authorization"

\* C35: the authorization layer forwards only requests whose relay header is
\* present and permitted, answers 401 without the header and 403 on denial;
\* POST under /api/v1/events and GET on a path containing /verify are granted
\* to every relay, /api/v1/admin paths only to admin relays, all else denied.
\* (Refuted: GET on an admin path containing /verify is granted to every
\* relay.)
C35_AuthorizationContract ==
    \A p \in Procs : Authorized(p) =>
        LET r == req[p]
            granted == r.forwarded
        IN /\ granted => r.header.present
           /\ ~r.header.present => r.status = 401
           /\ (r.header.present /\ r.header.text /\ ~granted) => r.status = 403
           /\ (r.header.present /\ r.header.text) =>
                 /\ (r.method = "POST" /\ StartsWithEvents(r.path)) => granted
                 /\ (r.method = "GET" /\ ContainsVerify(r.path)) => granted
                 /\ (granted /\ StartsWithAdmin(r.path)) => is_admin_relay(r.header.value)
                 /\ (/\ ~(r.method = "POST" /\ StartsWithEvents(r.path))
                     /\ ~(r.method = "GET" /\ ContainsVerify(r.path))
                     /\ ~StartsWithAdmin(r.path)) => ~granted

\* ------------------------------------------ properties: stored signatures
\* The record's signature is the keyed digest of its own fields
SelfSigned(c) ==
    c.signature = sign_certificate_data(
                      CertData(c.certificate_id, c.relay_id, c.public_key, c.expires_at))

\* C36: every record of the certificate store is stored under its own id and
\* carries the server-key digest of its certificate_id, relay_id, public_key
\* and expires_at; no validate_certificate call returns the invalid signature
\* error.
C36_StoredRecordsSelfSigned ==
    /\ \A id \in DOMAIN certificates :
          certificates[id].certificate_id = id /\ SelfSigned(certificates[id])
    /\ \A p \in Procs :
          (req[p].pc = "done" /\ req[p].kind = "protected") =>
             req[p].vc_result # "invalid_signature"

C36_Witness ==
    /\ \E id \in DOMAIN certificates :
          /\ id > RecentId
          /\ certificates[id].issued_at # certificates[id].expires_at
          /\ SelfSigned(certificates[id])
    /\ \E p \in Procs :
          /\ req[p].pc = "done" /\ req[p].kind = "protected"
          /\ req[p].vc_result = "ok"

\* ------------------------------------------ properties: repeated validation
\* The certificate record the store holds for an issued certificate is the
\* one that was issued
StoredAsIssued(certs, e) ==
    /\ e.certificate_id \in DOMAIN certs
    /\ certs[e.certificate_id].relay_id = e.relay_id
    /\ certs[e.certificate_id].public_key = e.public_key
    /\ certs[e.certificate_id].expires_at = e.expires_at

\* C37: no step of a validate_certificate call changes an unexpired record;
\* a call that returns Ok returns the fields of the record it looked up,
\* which is still stored afterwards if it has not expired; and an issued
\* certificate that is stored and unexpired stays stored as issued, so its
\* token validates again.
C37_ValidationDoesNotConsume ==
    [][/\ \A p \in Procs :
            (Steps(p) /\ req[p].pc \in ValidatePcs) =>
               /\ Unexpired(certificates', now) = Unexpired(certificates, now)
               /\ req'[p].pc = "mw_buffer" =>
                     LET c == req[p].certificate
                     IN /\ req'[p].validation =
                             [relay_id |-> c.relay_id, public_key |-> c.public_key,
                              expires_at |-> c.expires_at]
                        /\ c.expires_at > now =>
                              /\ c.certificate_id \in DOMAIN certificates'
                              /\ certificates'[c.certificate_id] = c
       /\ \A e \in issued :
            (e.expires_at > now /\ StoredAsIssued(certificates, e)) =>
               StoredAsIssued(certificates', e)]_vars

\* The token of the live certificate has been validated for one request that
\* went downstream and is validated for another one, and the record is stored
C37_Witness ==
    \E p, q \in Procs : \E e \in issued :
        /\ p # q
        /\ req[p].pc = "done" /\ req[p].kind = "protected"
        /\ req[p].vc_result = "ok" /\ req[p].forwarded
        /\ Validated(q, e)
        /\ req[q].validation.public_key = e.public_key
        /\ e.expires_at > now
        /\ StoredAsIssued(certificates, e)

\* ------------------------------------------ properties: frame of issuance
\* Worker p takes a step of issue_certificate
IssueStep(p) == Steps(p) /\ req[p].pc \in IssuePcs

\* C38: no step of an issue_certificate call removes or changes a record that
\* has not expired, and a validate_certificate call for an earlier token that
\* has not expired does not fail, whatever was issued since: it returns the
\* relay_id and public_key the token was issued for.
C38_IssuanceKeepsUnexpired ==
    [][/\ \A p \in Procs :
            IssueStep(p) =>
               \A id \in DOMAIN Unexpired(certificates, now) :
                  id \in DOMAIN certificates' /\ certificates'[id] = certificates[id]
       /\ \A q \in Procs : \A e \in issued :
            (Steps(q) /\ Validating(q, e) /\ now < e.expires_at) =>
               /\ req'[q].pc # "done"
               /\ req'[q].pc = "mw_buffer" =>
                     /\ req'[q].validation.relay_id = e.relay_id
                     /\ req'[q].validation.public_key = e.public_key]_vars

\* The token issued first has been validated after a further certificate was
\* issued and stored, both unexpired
C38_Witness ==
    \E q \in Procs : \E e, f \in issued :
        /\ e.certificate_id = RecentId
        /\ f.certificate_id > RecentId
        /\ Validated(q, e)
        /\ req[q].validation.public_key = e.public_key
        /\ now < e.expires_at
        /\ StoredAsIssued(certificates, e)
        /\ StoredAsIssued(certificates, f)
        /\ \E p \in Procs : req[p].pc = "done" /\ req[p].kind = "issue"

\* ------------------------------------------- properties: header fallback
\* Worker p ends the body step for a relay whose id is not a legal header value
UnrepresentableStep(p) ==
    /\ req[p].pc = "mw_buffer"
    /\ req'[p].pc = "done"
    /\ ~HeaderSafe(req[p].validation.relay_id)

\* C39: a request validated for a relay whose id is not a legal header value
\* is never rejected for that: it is turned down only when its body cannot be
\* read (400) or its envelope does not verify (401), and otherwise goes
\* downstream with X-Validated-Relay-ID "unknown"; what goes downstream for
\* one such relay equals what goes downstream for another with the same body.
C39_UnrepresentableRelayForwardedAsUnknown ==
    [][\A p \in Procs :
          UnrepresentableStep(p) =>
             /\ req'[p].forwarded => req'[p].fwd_relay_header = "unknown"
             /\ ~req'[p].forwarded =>
                   \/ req'[p].status = 400 /\ req'[p].body = NoBody
                   \/ /\ req'[p].status = 401
                      /\ ParsesAsEnvelope(req'[p].body)
                      /\ ~VerifiesUnder(req'[p].body.jwt, req[p].validation.public_key)
             /\ \A q \in Procs \ {p} :
                   (ForwardedProtected(q) /\ req'[p].forwarded
                      /\ req[q].body = req'[p].body) => req'[p] = req[q]]_vars

\* The requests of two relays with different ids have gone downstream and
\* cannot be told apart
C39_Witness ==
    \E p, q \in Procs :
        /\ p # q
        /\ UnrepresentableRelays[p] # UnrepresentableRelays[q]
        /\ ForwardedProtected(p) /\ ForwardedProtected(q)
        /\ req[p].fwd_relay_header = "unknown"
        /\ req[p] = req[q]

====
